---- MODULE Spec2Model ----
(***************************************************************************)
(* Model of the EWF write engine of libewf                                 *)
(* (libewf/libewf_write_io_handle.c): the primary append path              *)
(* libewf_write_io_handle_write_new_chunk, the delta path                  *)
(* libewf_write_io_handle_write_existing_chunk, and the capacity planner   *)
(* they consult.  The segment file writer, the offset table and finalize   *)
(* live in other files of the library and are modelled from the            *)
(* specification.                                                          *)
(*                                                                         *)
(* Integer representation.  TLC integers are 32 bit signed.  A C uint32_t  *)
(* value v is therefore held in its two's complement view: v itself when   *)
(* v < 2^31 and v - 2^32 (a negative number) otherwise.  U32Ge compares    *)
(* two such values in the unsigned order.                                  *)
(***************************************************************************)
EXTENDS Integers, Sequences, FiniteSets, TLC

VARIABLES
    write_io_handle,      \* libewf_write_io_handle_t
    io_handle,            \* libewf_io_handle_t: format, ewf_format
    media_values,         \* libewf_media_values_t
    offset_table,         \* libewf_offset_table_t
    segment_table,        \* libewf_segment_table_t (primary segment files)
    delta_segment_table,  \* libewf_segment_table_t (delta segment files)
    call,                 \* the last call made on the handle and its result
    failures              \* number of I/O or allocation failures so far

vars == <<write_io_handle, io_handle, media_values, offset_table,
          segment_table, delta_segment_table, call, failures>>

-----------------------------------------------------------------------------
(* Sizes of the on-disk structures *)

SizeofSection == 76
SizeofCrc == 4
SizeofTableOffset == 4
SizeofTable == 24
SizeofFileHeader == 12
SizeofDeltaChunkHeader == 18
INT32_MAX == 2147483647
UINT8_MOD == 256

\* LIBEWF_DEFAULT_SEGMENT_FILE_SIZE: 1440 MiB
DefaultSegmentFileSize == 1509949440

(* Bounds of the model *)

\* The chunks that can be written are 0..MaxChunk
MaxChunk == 3
\* The I/O and allocation failures of one run
MaxFailures == 1
\* The delta writes of one run
MaxDeltaWrites == 2
\* media_values->chunk_size
ChunkSize == 16
\* The size of a compressed chunk, and of one that deflate made larger
CompressedChunkSize == 10
InflatedChunkSize == 40
\* write_io_handle->segment_file_size: a segment file of a few chunks
SmallSegmentFileSize == 640
\* write_io_handle->maximum_section_amount_of_chunks
SectionChunks == 2
\* The runs that fill one large segment file: its size, the chunks of a
\* media of a few and of many chunks, and the section amount of chunks
SectionsSegmentFileSize == 100000
FewChunks == 10
ManyChunks == 257
FewSectionChunks == 4
\* A segment file for which the planner of the EnCase2+ formats expects one
\* chunk and the segment file has room for more
RoomySegmentFileSize == 906
\* A segment file size that the second delta chunk of a delta segment file
\* exceeds, and one that it fits
TightSegmentFileSize == 370
SnugSegmentFileSize == 400
\* The chunk data passed to process_chunk has at most MaxDataSize bytes, or
\* is one byte larger than the chunk size
MaxDataSize == 2
\* *compressed_chunk_data_size on entry: a buffer smaller than a chunk and
\* one larger than every compressed chunk
SmallBufferSize == 12
LargeBufferSize == 64
\* A media chunk size smaller than every deflate stream
TinyChunkSize == 8
\* The data of a chunk that is shorter than the chunk size
ShortDataSize == 8
\* The planner is asked about segment files with 0..MaxPlannerRemaining bytes
\* left and about the chunks sections 0..MaxSectionNumber and 255
MaxPlannerRemaining == 500
MaxSectionNumber == 4
\* A segment file size of 1 MiB and a media chunk of 64 sectors of 512 bytes
MebiSegmentFileSize == 1048576
SectorsChunkSize == 32768
\* A maximum_section_amount_of_chunks of 2^29 offsets
LargeSectionChunks == 536870912

-----------------------------------------------------------------------------
(* C integer arithmetic *)

\* C division truncates toward zero
CDiv(a, b) == IF a >= 0 THEN a \div b ELSE -((-a) \div b)

CMod(a, b) == a - (b * CDiv(a, b))

\* UINT32_MAX in the two's complement view
UINT32_MAX == -1

\* a >= b for two uint32_t values in the two's complement view
U32Ge(a, b) ==
    IF (a < 0) = (b < 0) THEN a >= b ELSE a < 0

Min(a, b) == IF a < b THEN a ELSE b

\* INT64_MAX as four 16 bit limbs, the most significant first
INT64_MAX == <<32767, 65535, 65535, 65535>>

\* offset > size, for an offset below 2^31 and a 64 bit size in limbs
ExceedsSize64(offset, size) ==
    /\ size[1] = 0
    /\ size[2] = 0
    /\ size[3] < 32768
    /\ offset > (size[3] * 65536) + size[4]

-----------------------------------------------------------------------------
(* Capacity planner *)

\* The per chunk size the planner divides by: chunk_size + 16 for EWF-S01,
\* chunk_size + sizeof( ewf_crc_t ) otherwise
PlannerChunkSize(media, ewf_format) ==
    IF ewf_format = "S01" THEN media.chunk_size + 16
    ELSE media.chunk_size + SizeofCrc

\* The space the planner reserves per chunks section
PlannerSectionOverhead(format, ewf_format) ==
    IF ewf_format = "S01" THEN SizeofSection
    ELSE IF format = "ENCASE1" THEN SizeofSection + SizeofCrc
    ELSE (3 * SizeofSection) + (2 * SizeofCrc)

\* The space the planner reserves per chunk for the table offsets
PlannerOffsetOverhead(format, ewf_format) ==
    IF ewf_format = "S01" \/ format = "ENCASE1" THEN SizeofTableOffset
    ELSE 2 * SizeofTableOffset

\* The tail of calculate_chunks_per_segment: the clamp to the remaining media
\* chunks, the addition of the segment chunks, the saturation and the cast to
\* uint32_t.  huge: the 64 bit quotient is at least 2^32 (see below).
ChunksPerSegmentTail(huge, calculated, segment_amount_of_chunks, amount_of_chunks, media) ==
    LET remaining_amount_of_chunks == media.amount_of_chunks - amount_of_chunks
        clamped == media.media_size > 0
                   /\ (huge \/ remaining_amount_of_chunks < calculated)
        c1 == IF clamped THEN remaining_amount_of_chunks ELSE calculated
        c2 == IF segment_amount_of_chunks > 0
              THEN c1 + segment_amount_of_chunks ELSE c1
    IN  IF huge /\ ~clamped THEN UINT32_MAX ELSE c2

\* libewf_write_io_handle_calculate_chunks_per_segment.  The result is the
\* uint32_t stored in *chunks_per_segment (two's complement view);
\* maximum_section_amount_of_chunks = 0 is rejected by the caller of this
\* operator.
\*
\* For EWF-S01 the divisor chunk_size + 16 is a 32 bit unsigned int, so the
\* int64_t divisions are signed and truncate toward zero.  For the other
\* formats the divisor chunk_size + sizeof( ewf_crc_t ) is a size_t, so the
\* int64_t dividend is converted to an unsigned 64 bit value: a negative
\* dividend d becomes 2^64 + d.  With chunk_size + 4 > 16 (all chunk sizes of
\* the model) and |d| < 2^31 the quotient of such a dividend and every value
\* derived from it stays at or above 2^32 ("huge"): it is cut down by the clamp
\* to the remaining media chunks or saturates at UINT32_MAX.
calculate_chunks_per_segment(remaining_segment_file_size, maximum_section_amount_of_chunks, segment_amount_of_chunks, amount_of_chunks, media, format, ewf_format, unrestrict_offset_amount) ==
    LET per == PlannerChunkSize(media, ewf_format)
        signed == ewf_format = "S01"
        hugeMax == ~signed /\ remaining_segment_file_size < 0
        maximum_chunks_per_segment == CDiv(remaining_segment_file_size, per)
        required_chunk_sections ==
            IF unrestrict_offset_amount = 0
            THEN CMod(maximum_chunks_per_segment, maximum_section_amount_of_chunks)
            ELSE 1
        budget == remaining_segment_file_size
                  - (required_chunk_sections * PlannerSectionOverhead(format, ewf_format))
                  - (maximum_chunks_per_segment * PlannerOffsetOverhead(format, ewf_format))
        huge == hugeMax \/ (~signed /\ budget < 0)
        calculated == IF huge THEN 0 ELSE CDiv(budget, per)
    IN  ChunksPerSegmentTail(huge, calculated, segment_amount_of_chunks,
                             amount_of_chunks, media)

\* A uint32_t value (two's complement view) as two 16 bit limbs, the most
\* significant first
U32Limbs(v) ==
    LET t == IF v >= 0 THEN v ELSE (v + INT32_MAX) + 1
    IN  <<(t \div 65536) + (IF v < 0 THEN 32768 ELSE 0), t % 65536>>

\* The product of an int k (0 <= k < 256) and a uint32_t in limbs: the int is
\* converted to unsigned int and the product is taken modulo 2^32
U32Mul(k, limbs) ==
    LET low == k * limbs[2]
        high == (k * limbs[1]) + (low \div 65536)
    IN  <<high % 65536, low % 65536>>

\* a - b as an int64_t, for two uint32_t values in limbs: the low limb is in
\* 0..65535 and the high limb carries the sign
Int64Sub(a, b) ==
    IF a[2] < b[2]
    THEN <<(a[1] - b[1]) - 1, (a[2] - b[2]) + 65536>>
    ELSE <<a[1] - b[1], a[2] - b[2]>>

\* a > b for two values in limbs
LimbsGreater(a, b) == a[1] > b[1] \/ (a[1] = b[1] /\ a[2] > b[2])

\* libewf_write_io_handle_calculate_chunks_per_chunks_section: [ok, value]
\* chunks_section_number is a uint8_t; maximum_section_amount_of_chunks and
\* chunks_per_segment are uint32_t values (two's complement view).  The
\* product ( chunks_section_number - 1 ) * maximum_section_amount_of_chunks
\* is an unsigned int; remaining_amount_of_chunks is an int64_t.
calculate_chunks_per_chunks_section(maximum_section_amount_of_chunks, chunks_per_segment, chunks_section_number, unrestrict_offset_amount) ==
    LET maximum == U32Limbs(maximum_section_amount_of_chunks)
        sub == IF chunks_section_number > 1
               THEN U32Mul(chunks_section_number - 1, maximum)
               ELSE <<0, 0>>
        remaining_amount_of_chunks == Int64Sub(U32Limbs(chunks_per_segment), sub)
        restricted == IF unrestrict_offset_amount = 0
                         /\ LimbsGreater(remaining_amount_of_chunks, maximum)
                      THEN maximum
                      ELSE remaining_amount_of_chunks
    IN  IF maximum_section_amount_of_chunks = 0 \/ chunks_section_number = 0
        THEN [ok |-> FALSE, value |-> 0]
        ELSE IF remaining_amount_of_chunks[1] < 0
                \/ remaining_amount_of_chunks = <<0, 0>>
        THEN [ok |-> FALSE, value |-> 0]
        ELSE IF restricted[1] > 32767
        THEN [ok |-> TRUE, value |-> INT32_MAX]
        ELSE [ok |-> TRUE, value |-> (restricted[1] * 65536) + restricted[2]]

\* libewf_write_io_handle_test_segment_file_full
test_segment_file_full(remaining_segment_file_size, segment_amount_of_chunks, media, input_write_count, chunks_per_segment, current_amount_of_chunks, format, ewf_format) ==
    IF media.amount_of_chunks # 0 /\ media.amount_of_chunks = current_amount_of_chunks
    THEN 1
    ELSE IF media.media_size # 0 /\ input_write_count >= media.media_size
    THEN 1
    ELSE IF ewf_format = "S01" \/ format = "ENCASE1"
    THEN (IF U32Ge(segment_amount_of_chunks, chunks_per_segment) THEN 1 ELSE 0)
    ELSE IF remaining_segment_file_size < media.chunk_size + SizeofCrc
    THEN 1
    ELSE 0

\* An off64_t offset below 2^31 as <<high, low>>: the offset is
\* high * 2^31 + low
Off64(offset) == <<0, offset>>

\* No difference of two offsets is found to exceed INT32_MAX
Off64ExceedsNever(a, b) == FALSE

\* a - b > INT32_MAX for two off64_t offsets
Off64Exceeds(a, b) ==
    \/ a[1] - b[1] >= 2
    \/ a[1] - b[1] = 1 /\ a[2] - b[2] >= 0

\* libewf_write_io_handle_test_chunks_section_full.  The offsets are off64_t
\* values as <<high, low>>, the amounts of chunks uint32_t values (two's
\* complement view).
test_chunks_section_full(chunks_section_offset, remaining_segment_file_size, media, input_write_count, segment_file_offset, maximum_section_amount_of_chunks, section_amount_of_chunks, current_amount_of_chunks, chunks_per_chunks_section, format, ewf_format, unrestrict_offset_amount) ==
    IF maximum_section_amount_of_chunks = 0
    THEN -1
    ELSE IF chunks_section_offset = Off64(0)
    THEN 0
    ELSE IF media.amount_of_chunks # 0 /\ media.amount_of_chunks = current_amount_of_chunks
    THEN 1
    ELSE IF media.media_size # 0 /\ input_write_count >= media.media_size
    THEN 1
    ELSE IF unrestrict_offset_amount = 0
            /\ U32Ge(section_amount_of_chunks, maximum_section_amount_of_chunks)
    THEN 1
    ELSE IF section_amount_of_chunks < 0
    THEN 1
    ELSE IF Off64Exceeds(segment_file_offset, chunks_section_offset)
    THEN 1
    ELSE IF ewf_format = "S01" \/ format = "ENCASE1"
    THEN (IF U32Ge(section_amount_of_chunks, chunks_per_chunks_section)
          THEN 1 ELSE 0)
    ELSE IF remaining_segment_file_size < media.chunk_size + SizeofCrc
    THEN 1
    ELSE 0

-----------------------------------------------------------------------------
(* libewf_write_io_handle_process_chunk *)

\* No block is an empty block
test_empty_block_never(buffer, size) == 0

\* libewf_write_io_handle_test_empty_block: 1 if every byte of the buffer
\* equals the first
test_empty_block(buffer, size) ==
    IF \E iterator \in 1..(size - 1): buffer[1] # buffer[iterator + 1]
    THEN 0
    ELSE 1

\* libewf_compress: deflated is the size of the compressed data, size the
\* size of the buffer.  [result, size]: size is the size of the compressed
\* data, or the size required when the buffer is too small.
libewf_compress(size, deflated, fail) ==
    IF fail = "compress"
    THEN [result |-> -1, size |-> 0]
    ELSE IF deflated > size
    THEN [result |-> -1, size |-> deflated]
    ELSE [result |-> 1, size |-> deflated]

\* The result of a call of process_chunk that failed: the outputs are not set
ProcessChunkFails(compressions) ==
    [result |-> -1, is_compressed |-> -1, write_crc |-> -1, chunk_crc |-> "none",
     compressions |-> compressions]

\* Lines 956-958: the chunk is stored compressed
ProcessChunkStoresCompressed(ewf_format, compressed_chunk_data_size, media) ==
    \/ ewf_format = "S01"
    \/ /\ compressed_chunk_data_size > 0
       /\ compressed_chunk_data_size < media.chunk_size

\* Lines 956-1008: the form in which the chunk is stored.  size is
\* *compressed_chunk_data_size, compressions the calls of libewf_compress made.
ProcessChunkStore(media, ewf_format, chunk_data, chunk_data_size, size, compressions) ==
    IF ProcessChunkStoresCompressed(ewf_format, size, media)
    THEN [result |-> size, is_compressed |-> 1, write_crc |-> 0,
          chunk_crc |-> "compressed", compressions |-> compressions]
    ELSE IF chunk_data.buffer = "chunk_cache_data"
    THEN [result |-> chunk_data_size + SizeofCrc, is_compressed |-> 0,
          write_crc |-> 0, chunk_crc |-> "calculated",
          compressions |-> compressions]
    ELSE [result |-> chunk_data_size, is_compressed |-> 0, write_crc |-> 1,
          chunk_crc |-> "calculated", compressions |-> compressions]

\* The compression with one more attempt whatever the buffer and the size
\* passed back are, and without the resize of the chunk cache
ProcessChunkCompressRetries(media, ewf_format, chunk_data, chunk_data_size, compressed_chunk_data, compressed_chunk_data_size, deflated, fail) ==
    LET first == libewf_compress(compressed_chunk_data_size, deflated, fail)
        second == libewf_compress(deflated, deflated,
                                  IF fail = "compress_again" THEN "compress"
                                  ELSE "none")
    IN  IF chunk_data.buffer = compressed_chunk_data
        THEN ProcessChunkFails(0)
        ELSE IF first.result = 1
        THEN ProcessChunkStore(media, ewf_format, chunk_data, chunk_data_size,
                               first.size, 1)
        ELSE IF second.result # 1
        THEN ProcessChunkFails(2)
        ELSE ProcessChunkStore(media, ewf_format, chunk_data, chunk_data_size,
                               second.size, 2)

\* Lines 843-955: the compression, with one more attempt after the chunk
\* cache was resized when its buffer was too small.  fail names the step
\* that fails: the first call of libewf_compress ("compress"), the resize
\* of the chunk cache ("resize") or the second call of libewf_compress
\* ("compress_again").
ProcessChunkCompress(media, ewf_format, chunk_data, chunk_data_size, compressed_chunk_data, compressed_chunk_data_size, deflated, fail) ==
    LET first == libewf_compress(compressed_chunk_data_size, deflated, fail)
        again == /\ first.result = -1
                 /\ compressed_chunk_data = "chunk_cache_compressed"
                 /\ first.size > 0
        second == libewf_compress(first.size, deflated,
                                  IF fail = "compress_again" THEN "compress"
                                  ELSE fail)
    IN  IF chunk_data.buffer = compressed_chunk_data
        THEN ProcessChunkFails(0)
        ELSE IF ~again
        THEN (IF first.result # 1
              THEN ProcessChunkFails(1)
              ELSE ProcessChunkStore(media, ewf_format, chunk_data,
                                     chunk_data_size, first.size, 1))
        ELSE IF fail = "resize"
        THEN ProcessChunkFails(1)
        ELSE IF second.result # 1
        THEN ProcessChunkFails(2)
        ELSE ProcessChunkStore(media, ewf_format, chunk_data, chunk_data_size,
                               second.size, 2)

\* libewf_write_io_handle_process_chunk.  chunk_data is [buffer, bytes]:
\* the buffer that holds the chunk data and its bytes; compressed_chunk_data
\* is the buffer for the compressed data and compressed_chunk_data_size the
\* value of *compressed_chunk_data_size on entry; deflated is the size to
\* which the chunk data compresses.  All pointers are valid.
process_chunk(media, compression_level, compress_empty_block, ewf_format, chunk_data, chunk_data_size, compressed_chunk_data, compressed_chunk_data_size, deflated, fail) ==
    LET chunk_compression_level ==
            IF /\ compression_level = "NONE"
               /\ compress_empty_block = 1
               /\ test_empty_block(chunk_data.bytes, chunk_data_size) = 1
            THEN "DEFAULT"
            ELSE compression_level
    IN  IF chunk_data.buffer = "chunk_cache_compressed"
        THEN ProcessChunkFails(0)
        ELSE IF chunk_data_size > media.chunk_size
        THEN ProcessChunkFails(0)
        ELSE IF ewf_format = "S01" \/ chunk_compression_level # "NONE"
        THEN ProcessChunkCompress(media, ewf_format, chunk_data, chunk_data_size,
                                  compressed_chunk_data,
                                  compressed_chunk_data_size, deflated, fail)
        ELSE ProcessChunkStore(media, ewf_format, chunk_data, chunk_data_size,
                               compressed_chunk_data_size, 0)

-----------------------------------------------------------------------------
(* Segment files, the segment table and the offset table *)

\* The NULL segment file handle of an offset table entry that is not set
NullHandle == <<>>

\* An offset table entry that is not set (the table is zero-initialized)
EmptyChunkOffset ==
    [segment_file_handle |-> NullHandle, file_offset |-> 0, size |-> 0,
     compressed |-> 0]

\* libewf_offset_table_resize: grow to at least amount entries
offset_table_resize(ot, amount) ==
    IF Len(ot) >= amount THEN ot
    ELSE ot \o [i \in 1..(amount - Len(ot)) |-> EmptyChunkOffset]

\* The entry of chunk (chunks count from 0) is set
ChunkIsSet(ot, chunk) ==
    /\ chunk < Len(ot)
    /\ ot[chunk + 1].segment_file_handle # NullHandle

\* The handle by which an offset table entry refers to a segment file
HandleOf(sf) == <<sf.file_type, sf.segment_number>>

\* A segment file as libewf_segment_table_create_segment_file makes it.
\* offset: the current position of the file; size: the bytes in the file.
\* amount_of_chunks is the amount read from an existing segment file: it is 0
\* for a file created by this write.  chunks_section_open records that the
\* start of a chunks section has been written and its correction has not.
NewSegmentFile(segment_number, file_type) ==
    [segment_number |-> segment_number, file_type |-> file_type,
     write_open |-> 1, amount_of_chunks |-> 0, offset |-> 0, size |-> 0,
     section_list |-> <<>>, chunks_section_open |-> 0]

SectionValues(type, start_offset, size, chunks) ==
    [type |-> type, start_offset |-> start_offset, size |-> size,
     chunks |-> chunks]

Max(a, b) == IF a > b THEN a ELSE b

\* A write of count bytes at the current position of the segment file
FileWrite(sf, count) ==
    [sf EXCEPT !.offset = sf.offset + count,
               !.size = Max(sf.size, sf.offset + count)]

\* A seek of the segment file
FileSeek(sf, offset) == [sf EXCEPT !.offset = offset]

AppendSection(sf, type, start_offset, size, chunks) ==
    [sf EXCEPT !.section_list =
        Append(sf.section_list, SectionValues(type, start_offset, size, chunks))]

\* libewf_segment_file_write_start: the file header and the sections that
\* start a segment file (header and volume in the first, data in the others)
WriteStartCount(segment_number) ==
    IF segment_number = 1 THEN SizeofFileHeader + (2 * SizeofSection)
    ELSE SizeofFileHeader + SizeofSection

segment_file_write_start(sf, segment_number) ==
    LET count == WriteStartCount(segment_number)
    IN  [sf |-> AppendSection(FileWrite(sf, count),
                              IF segment_number = 1 THEN "volume" ELSE "data",
                              SizeofFileHeader, count - SizeofFileHeader, 0),
         count |-> count]

\* The chunks section of EWF-S01 and EnCase1 is one table section that holds
\* the offsets in front of the chunks; the other formats use sectors, table
\* and table2
TableInFront(format, ewf_format) ==
    ewf_format = "S01" \/ format = "ENCASE1"

\* The size of a table section of amount offsets
TableSectionSize(amount, format, ewf_format) ==
    SizeofSection + SizeofTable + (SizeofTableOffset * amount)
    + (IF ewf_format = "S01" THEN 0 ELSE SizeofCrc)

\* libewf_segment_file_write_chunks_section_start
ChunksSectionStartCount(chunks_per_chunks_section, format, ewf_format) ==
    IF TableInFront(format, ewf_format)
    THEN TableSectionSize(chunks_per_chunks_section, format, ewf_format)
    ELSE SizeofSection

segment_file_write_chunks_section_start(sf, chunks_per_chunks_section, format, ewf_format) ==
    LET count == ChunksSectionStartCount(chunks_per_chunks_section,
                                         format, ewf_format)
    IN  [sf |-> [FileWrite(sf, count) EXCEPT !.chunks_section_open = 1],
         count |-> count]

\* libewf_segment_file_write_chunks_data: the chunk, its CRC when write_crc
\* is set, and the offset table entry of the chunk
ChunksDataCount(chunk_size, write_crc) ==
    chunk_size + (IF write_crc = 1 THEN SizeofCrc ELSE 0)

SetChunkOffset(ot, chunk, sf, file_offset, size, is_compressed) ==
    [offset_table_resize(ot, chunk + 1) EXCEPT ![chunk + 1] =
        [segment_file_handle |-> HandleOf(sf), file_offset |-> file_offset,
         size |-> size, compressed |-> is_compressed]]

segment_file_write_chunks_data(sf, ot, chunk, chunk_size, is_compressed, write_crc) ==
    LET count == ChunksDataCount(chunk_size, write_crc)
    IN  [sf |-> FileWrite(sf, count),
         ot |-> SetChunkOffset(ot, chunk, sf, sf.offset, count, is_compressed),
         count |-> count]

\* libewf_segment_file_write_chunks_correction: seeks to the start of the
\* chunks section and rewrites it, appends table and table2 for the formats
\* that use them, and leaves the position at the end of the file
ChunksCorrectionCount(section_amount_of_chunks, format, ewf_format) ==
    IF TableInFront(format, ewf_format)
    THEN TableSectionSize(section_amount_of_chunks, format, ewf_format)
    ELSE SizeofSection
         + (2 * TableSectionSize(section_amount_of_chunks, format, ewf_format))

segment_file_write_chunks_correction(sf, chunks_section_offset, chunks_section_write_count, section_amount_of_chunks, format, ewf_format) ==
    LET count == ChunksCorrectionCount(section_amount_of_chunks, format, ewf_format)
        end == sf.size
        rewritten == FileWrite(FileSeek(sf, chunks_section_offset),
                               IF TableInFront(format, ewf_format)
                               THEN count ELSE SizeofSection)
        tables == IF TableInFront(format, ewf_format)
                  THEN FileSeek(rewritten, Max(end, rewritten.size))
                  ELSE FileWrite(FileSeek(rewritten, end), count - SizeofSection)
    IN  [sf |-> AppendSection([tables EXCEPT !.chunks_section_open = 0],
                              IF TableInFront(format, ewf_format)
                              THEN "table" ELSE "sectors",
                              chunks_section_offset,
                              tables.size - chunks_section_offset,
                              section_amount_of_chunks),
         count |-> count]

\* libewf_segment_file_write_last_section: the next or done section
segment_file_write_last_section(sf, last_segment_file) ==
    [sf |-> AppendSection(FileWrite(sf, SizeofSection),
                          IF last_segment_file = 1 THEN "done" ELSE "next",
                          sf.offset, SizeofSection, 0),
     count |-> SizeofSection]

\* libewf_segment_file_write_close: the terminator; the file is no longer
\* open for writing
segment_file_write_close(sf, segment_amount_of_chunks, last_segment_file) ==
    LET r == segment_file_write_last_section(sf, last_segment_file)
    IN  [sf |-> [r.sf EXCEPT !.write_open = 0], count |-> r.count]

-----------------------------------------------------------------------------
(* libewf_write_io_handle_write_new_chunk *)

\* The state of one call: the handle, the tables, the local variables
\* segment_number and total_write_count, the writer operations issued (ops),
\* and the value returned once the call has returned (done).
StartCall(h, st, ot) ==
    [h |-> h, st |-> st, ot |-> ot, segment_number |-> Len(st),
     total_write_count |-> 0, ops |-> <<>>, result |-> 0, done |-> FALSE,
     failed |-> "none"]

Return(m, value) == [m EXCEPT !.result = value, !.done = TRUE]

\* The failure fail is injected at the step named step
Fails(m, step, fail) ==
    [m EXCEPT !.result = -1, !.done = TRUE,
              !.failed = IF fail = step THEN step ELSE "planner"]

Issue(m, op) == [m EXCEPT !.ops = Append(m.ops, op)]

\* Only a chunk in a primary segment file counts as set
NewChunkAlreadySetPrimary(ot, chunk) ==
    /\ ChunkIsSet(ot, chunk)
    /\ ot[chunk + 1].segment_file_handle[1] = "EWF"

\* Lines 1121-1134: the chunk is already set in the offset table
NewChunkAlreadySet(ot, chunk) == ChunkIsSet(ot, chunk)

\* The media size is never reached
MediaSizeNeverReached(h, media) == FALSE

\* Lines 1194-1200: the amount of bytes as specified has been written
MediaSizeReached(h, media) ==
    media.media_size # 0 /\ h.input_write_count >= media.media_size

\* Lines 1121-1200: the checks made before anything is written
NewChunkChecks(m, media, chunk, chunk_size, fail) ==
    IF NewChunkAlreadySet(m.ot, chunk)
    THEN Return(m, -1)
    ELSE IF m.h.write_finalized = 1
    THEN Return(m, 0)
    ELSE IF Len(m.ot) < media.amount_of_chunks /\ fail = "offset_table_resize"
    THEN Fails(m, "offset_table_resize", fail)
    ELSE LET m1 == [m EXCEPT !.ot = offset_table_resize(m.ot, media.amount_of_chunks)]
         IN  IF chunk_size = 0
             THEN Return(m1, -1)
             ELSE IF MediaSizeReached(m1.h, media)
             THEN Return(m1, 0)
             ELSE m1

\* Every call creates a segment file
NewSegmentFileAlwaysNeeded(st, segment_number) == TRUE

\* Lines 1224-1227: a new segment file should be created
NewSegmentFileNeeded(st, segment_number) ==
    segment_number = 0 \/ st[segment_number].write_open = 0

\* Lines 1361-1396 and 1449-1484: the amount of chunks per segment
SetChunksPerSegment(h, sf, media, io) ==
    IF sf.amount_of_chunks = 0
    THEN [h EXCEPT !.chunks_per_segment =
            calculate_chunks_per_segment(
                h.remaining_segment_file_size,
                h.maximum_section_amount_of_chunks,
                h.segment_amount_of_chunks, h.amount_of_chunks,
                media, io.format, io.ewf_format, h.unrestrict_offset_amount)]
    ELSE [h EXCEPT !.chunks_per_segment = sf.amount_of_chunks]

\* Lines 1224-1397: create the next segment file and write its start
NewChunkCreateSegment(m, media, io, fail) ==
    IF m.done \/ ~NewSegmentFileNeeded(m.st, m.segment_number)
    THEN m
    ELSE
    LET h1 == [m.h EXCEPT !.create_chunks_section = 1,
                          !.chunks_section_number = 0,
                          !.chunks_per_chunks_section = 0,
                          !.segment_amount_of_chunks = 0]
        segment_number == m.segment_number + 1
        m1 == [m EXCEPT !.h = h1, !.segment_number = segment_number]
    IN  IF fail = "create_segment_file"
        THEN Fails(m1, "create_segment_file", fail)
        ELSE
        LET st2 == Append(m.st, NewSegmentFile(segment_number, "EWF"))
            h2 == [h1 EXCEPT !.remaining_segment_file_size =
                                h1.segment_file_size - SizeofSection]
            m2 == Issue([m1 EXCEPT !.h = h2, !.st = st2], "create_segment_file")
        IN  IF fail = "write_start"
            THEN Fails(m2, "write_start", fail)
            ELSE
            LET w == segment_file_write_start(st2[segment_number], segment_number)
                h3 == [h2 EXCEPT
                        !.write_count = h2.write_count + w.count,
                        !.remaining_segment_file_size =
                            h2.remaining_segment_file_size - w.count]
                m3 == Issue([m2 EXCEPT
                              !.st = [st2 EXCEPT ![segment_number] = w.sf],
                              !.total_write_count = m2.total_write_count + w.count,
                              !.h = h3], "write_start")
            IN  IF h3.maximum_section_amount_of_chunks = 0
                THEN Fails(m3, "planner", fail)
                ELSE [m3 EXCEPT !.h = SetChunksPerSegment(h3, w.sf, media, io)]

\* No space is left for the start of the chunks section
ChunksSectionReserveNone(io) == 0

\* Lines 1412-1429: the space left for the start of the chunks section
ChunksSectionReserve(io) == PlannerSectionOverhead(io.format, io.ewf_format)

\* No chunks section is created
NewChunkCreateSectionSkipped(m, media, io, fail) == m

\* Lines 1398-1555: create the chunks section
NewChunkCreateSection(m, media, io, fail) ==
    IF m.done \/ m.h.create_chunks_section # 1
    THEN m
    ELSE
    LET sf == m.st[m.segment_number]
        h1 == [m.h EXCEPT !.create_chunks_section = 0,
                          !.section_amount_of_chunks = 0,
                          !.chunks_section_write_count = 0,
                          !.remaining_segment_file_size =
                              m.h.remaining_segment_file_size
                              - ChunksSectionReserve(io)]
        m1 == [m EXCEPT !.h = h1]
    IN  IF fail = "get_offset"
        THEN Fails(m1, "get_offset", fail)
        ELSE
        LET h2 == [h1 EXCEPT !.chunks_section_offset = sf.offset,
                             !.chunks_section_number =
                                 (h1.chunks_section_number + 1) % UINT8_MOD]
            m2 == [m1 EXCEPT !.h = h2]
        IN  IF h2.maximum_section_amount_of_chunks = 0
            THEN Fails(m2, "planner", fail)
            ELSE
            LET h3 == SetChunksPerSegment(h2, sf, media, io)
                c == calculate_chunks_per_chunks_section(
                         h3.maximum_section_amount_of_chunks,
                         h3.chunks_per_segment, h3.chunks_section_number,
                         h3.unrestrict_offset_amount)
                m3 == [m2 EXCEPT !.h = h3]
            IN  IF ~c.ok
                THEN Fails(m3, "planner", fail)
                ELSE
                LET h4 == [h3 EXCEPT !.chunks_per_chunks_section = c.value]
                    grow == h4.amount_of_table_offsets < c.value
                    m4 == [m3 EXCEPT !.h = h4]
                IN  IF grow /\ fail = "reallocate"
                    THEN Fails(m4, "reallocate", fail)
                    ELSE
                    LET h5 == IF grow
                              THEN [h4 EXCEPT !.amount_of_table_offsets = c.value]
                              ELSE h4
                        m5 == [m4 EXCEPT !.h = h5]
                    IN  IF fail = "write_chunks_section_start"
                        THEN Fails(m5, "write_chunks_section_start", fail)
                        ELSE
                        LET w == segment_file_write_chunks_section_start(
                                     sf, c.value, io.format, io.ewf_format)
                        IN  Issue([m5 EXCEPT
                                !.st = [m5.st EXCEPT ![m.segment_number] = w.sf],
                                !.total_write_count = m5.total_write_count + w.count,
                                !.h = [h5 EXCEPT
                                    !.write_count = h5.write_count + w.count,
                                    !.remaining_segment_file_size =
                                        h5.remaining_segment_file_size - w.count]],
                              "write_chunks_section_start")

\* Lines 1589-1610: the counters after the chunk data was written
AdvanceCounters(h, write_count, chunk_data_size) ==
    [h EXCEPT !.input_write_count = h.input_write_count + chunk_data_size,
              !.write_count = h.write_count + write_count,
              !.chunks_section_write_count =
                  h.chunks_section_write_count + write_count,
              !.remaining_segment_file_size =
                  (h.remaining_segment_file_size - write_count)
                  - (2 * SizeofTableOffset),
              !.segment_amount_of_chunks = h.segment_amount_of_chunks + 1,
              !.section_amount_of_chunks = h.section_amount_of_chunks + 1,
              !.amount_of_chunks = h.amount_of_chunks + 1]

\* The counters are advanced before the chunk data is written
NewChunkWriteDataCountsFirst(m, chunk, chunk_size, chunk_data_size, is_compressed, write_crc, fail) ==
    IF m.done
    THEN m
    ELSE IF fail = "write_chunks_data"
    THEN Fails([m EXCEPT !.h = AdvanceCounters(m.h, chunk_size, chunk_data_size)],
               "write_chunks_data", fail)
    ELSE
    LET w == segment_file_write_chunks_data(m.st[m.segment_number], m.ot, chunk,
                                            chunk_size, is_compressed, write_crc)
    IN  Issue([m EXCEPT
            !.st = [m.st EXCEPT ![m.segment_number] = w.sf],
            !.ot = w.ot,
            !.total_write_count = m.total_write_count + w.count,
            !.h = AdvanceCounters(m.h, w.count, chunk_data_size)],
          "write_chunks_data")

\* Lines 1556-1610: write the chunk data
NewChunkWriteData(m, chunk, chunk_size, chunk_data_size, is_compressed, write_crc, fail) ==
    IF m.done
    THEN m
    ELSE IF fail = "write_chunks_data"
    THEN Fails(m, "write_chunks_data", fail)
    ELSE
    LET w == segment_file_write_chunks_data(m.st[m.segment_number], m.ot, chunk,
                                            chunk_size, is_compressed, write_crc)
    IN  Issue([m EXCEPT
            !.st = [m.st EXCEPT ![m.segment_number] = w.sf],
            !.ot = w.ot,
            !.total_write_count = m.total_write_count + w.count,
            !.h = AdvanceCounters(m.h, w.count, chunk_data_size)],
          "write_chunks_data")

\* The media size is known and not reached
NotLastSegmentFileKnownSize(h, media) ==
    media.media_size # 0 /\ h.input_write_count < media.media_size

\* Lines 1739-1742: this is not the last segment file
NotLastSegmentFile(h, media) ==
    media.media_size = 0 \/ h.input_write_count < media.media_size

\* Lines 1713-1781: close the segment file when it is full
NewChunkCloseSegment(m, media, io, fail) ==
    LET full == test_segment_file_full(
                    m.h.remaining_segment_file_size,
                    m.h.segment_amount_of_chunks, media,
                    m.h.input_write_count, m.h.chunks_per_segment,
                    m.h.amount_of_chunks, io.format, io.ewf_format)
    IN  IF full # 1 \/ ~NotLastSegmentFile(m.h, media)
        THEN m
        ELSE IF fail = "write_close"
        THEN Fails(m, "write_close", fail)
        ELSE
        LET w == segment_file_write_close(m.st[m.segment_number],
                                          m.h.segment_amount_of_chunks, 0)
        IN  Issue([m EXCEPT
                !.st = [m.st EXCEPT ![m.segment_number] = w.sf],
                !.total_write_count = m.total_write_count + w.count,
                !.h = [m.h EXCEPT !.write_count = m.h.write_count + w.count]],
              "write_close")

\* Lines 1611-1782: close the chunks section when it is full, and then the
\* segment file when it is full
NewChunkCloseSection(m, media, io, fail) ==
    IF m.done
    THEN m
    ELSE IF fail = "get_offset_2"
    THEN Fails(m, "get_offset_2", fail)
    ELSE
    LET sf == m.st[m.segment_number]
        result == test_chunks_section_full(
                      Off64(m.h.chunks_section_offset),
                      m.h.remaining_segment_file_size, media,
                      m.h.input_write_count, Off64(sf.offset),
                      m.h.maximum_section_amount_of_chunks,
                      m.h.section_amount_of_chunks, m.h.amount_of_chunks,
                      m.h.chunks_per_chunks_section, io.format, io.ewf_format,
                      m.h.unrestrict_offset_amount)
    IN  IF result = -1
        THEN Fails(m, "planner", fail)
        ELSE IF result # 1
        THEN m
        ELSE
        LET grow == m.h.amount_of_table_offsets < m.h.section_amount_of_chunks
        IN  IF grow /\ fail = "reallocate_2"
            THEN Fails(m, "reallocate_2", fail)
            ELSE
            LET h1 == IF grow
                      THEN [m.h EXCEPT !.amount_of_table_offsets =
                                           m.h.section_amount_of_chunks]
                      ELSE m.h
                m1 == [m EXCEPT !.h = h1]
            IN  IF fail = "write_chunks_correction"
                THEN Fails(m1, "write_chunks_correction", fail)
                ELSE
                LET w == segment_file_write_chunks_correction(
                             sf, h1.chunks_section_offset,
                             h1.chunks_section_write_count,
                             h1.section_amount_of_chunks,
                             io.format, io.ewf_format)
                    m2 == Issue([m1 EXCEPT
                            !.st = [m1.st EXCEPT ![m.segment_number] = w.sf],
                            !.total_write_count = m1.total_write_count + w.count,
                            !.h = [h1 EXCEPT
                                !.write_count = h1.write_count + w.count,
                                !.create_chunks_section = 1,
                                !.chunks_section_offset = 0]],
                          "write_chunks_correction")
                IN  NewChunkCloseSegment(m2, media, io, fail)

\* The data bytes consumed instead of the bytes written
NewChunkResultDataSize(m) == ChunkSize

\* Line 1783: the value returned by a call that did not fail
NewChunkResult(m) == m.total_write_count

\* libewf_write_io_handle_write_new_chunk, as a function of the state at
\* entry: each step works on the state the step before it has left
write_new_chunk(h, st, ot, media, io, chunk, chunk_size, chunk_data_size, is_compressed, write_crc, fail) ==
    CHOOSE m \in
        { IF m4.done THEN m4 ELSE Return(m4, NewChunkResult(m4)) :
          m4 \in { NewChunkCloseSection(m3, media, io, fail) :
          m3 \in { NewChunkWriteData(m2, chunk, chunk_size, chunk_data_size,
                                     is_compressed, write_crc, fail) :
          m2 \in { NewChunkCreateSection(m1, media, io, fail) :
          m1 \in { NewChunkCreateSegment(m0, media, io, fail) :
          m0 \in { NewChunkChecks(StartCall(h, st, ot), media, chunk,
                                  chunk_size, fail) } } } } } } : TRUE

-----------------------------------------------------------------------------
(* libewf_write_io_handle_write_existing_chunk *)

\* libewf_segment_file_write_delta_chunk: the delta_chunk section (section
\* start, delta chunk header, chunk and CRC) and the offset table entry
DeltaChunkCount(chunk_size, write_crc) ==
    SizeofSection + SizeofDeltaChunkHeader + chunk_size
    + (IF write_crc = 1 THEN SizeofCrc ELSE 0)

segment_file_write_delta_chunk(sf, ot, chunk, chunk_size, write_crc, no_section_append) ==
    LET count == DeltaChunkCount(chunk_size, write_crc)
        written == FileWrite(sf, count)
        listed == IF no_section_append = 0
                  THEN AppendSection(written, "delta_chunk", sf.offset, count, 1)
                  ELSE written
    IN  [sf |-> listed,
         ot |-> SetChunkOffset(ot, chunk, sf,
                               sf.offset + SizeofSection + SizeofDeltaChunkHeader,
                               count - (SizeofSection + SizeofDeltaChunkHeader), 0),
         count |-> count]

\* Every delta write is appended
ChunkNeverInDeltaSegmentFile(ot, chunk) == FALSE

\* Lines 1974-1976: the chunk already exists in a delta segment file
ChunkInDeltaSegmentFile(ot, chunk) ==
    ot[chunk + 1].segment_file_handle[1] = "DWF"

\* Lines 2084-2088: the chunk does not fit in the existing delta segment file
DeltaChunkExceeds(h, last_section_start_offset, chunk_size) ==
    last_section_start_offset + chunk_size + SizeofCrc + SizeofSection
        > h.segment_file_size

\* The check of is_compressed is left out
ExistingChunkChecksAnyForm(m, chunk, chunk_size, is_compressed) ==
    IF chunk >= Len(m.ot)
    THEN Return(m, -1)
    ELSE IF chunk_size = 0
    THEN Return(m, -1)
    ELSE IF m.ot[chunk + 1].segment_file_handle = NullHandle
    THEN Return(m, -1)
    ELSE m

\* Lines 1895-1962: the checks made before anything is written
ExistingChunkChecks(m, chunk, chunk_size, is_compressed) ==
    IF chunk >= Len(m.ot)
    THEN Return(m, -1)
    ELSE IF chunk_size = 0
    THEN Return(m, -1)
    ELSE IF is_compressed # 0
    THEN Return(m, -1)
    ELSE IF m.ot[chunk + 1].segment_file_handle = NullHandle
    THEN Return(m, -1)
    ELSE m

\* Lines 2154-2205: create the next delta segment file and write its start
ExistingChunkCreateSegment(m, fail) ==
    LET segment_number == m.segment_number + 1
    IN  IF fail = "create_segment_file"
        THEN Fails(m, "create_segment_file", fail)
        ELSE
        LET st1 == Append(m.st, NewSegmentFile(segment_number, "DWF"))
            m1 == Issue([m EXCEPT !.st = st1, !.segment_number = segment_number],
                        "create_segment_file")
        IN  IF fail = "write_start"
            THEN Fails(m1, "write_start", fail)
            ELSE
            LET w == segment_file_write_start(st1[segment_number], segment_number)
            IN  Issue([m1 EXCEPT
                    !.st = [st1 EXCEPT ![segment_number] = w.sf],
                    !.total_write_count = m1.total_write_count + w.count],
                  "write_start")

\* Lines 1976-2206: the chunk is not yet in a delta segment file: it is
\* written to the last delta segment file, or to a new one
ExistingChunkAppendPath(m, chunk_size, fail) ==
    IF m.segment_number = 0
    THEN ExistingChunkCreateSegment(m, fail)
    ELSE
    LET sf == m.st[m.segment_number]
    IN  IF sf.section_list = <<>>
        THEN Return(m, -1)
        ELSE
        LET last_section_start_offset ==
                sf.section_list[Len(sf.section_list)].start_offset
        IN  IF fail = "get_offset"
            THEN Fails(m, "get_offset", fail)
            ELSE IF sf.offset # last_section_start_offset /\ fail = "seek_offset"
            THEN Fails(m, "seek_offset", fail)
            ELSE
            LET sought == FileSeek(sf, last_section_start_offset)
                m1 == [m EXCEPT !.st = [m.st EXCEPT ![m.segment_number] = sought]]
            IN  IF DeltaChunkExceeds(m.h, last_section_start_offset, chunk_size)
                THEN IF fail = "write_last_section"
                     THEN Fails(m1, "write_last_section", fail)
                     ELSE
                     LET w == segment_file_write_last_section(sought, 0)
                     IN  ExistingChunkCreateSegment(
                            Issue([m1 EXCEPT
                                !.st = [m1.st EXCEPT ![m.segment_number] = w.sf],
                                !.total_write_count =
                                    m1.total_write_count + w.count],
                              "write_next_section"),
                            fail)
                ELSE [m1 EXCEPT !.st = [m1.st EXCEPT ![m.segment_number] =
                        [sought EXCEPT !.section_list =
                            SubSeq(sought.section_list, 1,
                                   Len(sought.section_list) - 1)]]]

\* The seek goes to the chunk data instead of the start of the section
ExistingChunkInPlacePathDataSeek(m, chunk, fail) ==
    LET entry == m.ot[chunk + 1]
        segment_number == entry.segment_file_handle[2]
    IN  IF fail = "seek_offset"
        THEN Fails([m EXCEPT !.segment_number = segment_number],
                   "seek_offset", fail)
        ELSE [m EXCEPT !.segment_number = segment_number,
                       !.st = [m.st EXCEPT ![segment_number] =
                                  FileSeek(m.st[segment_number],
                                           entry.file_offset)]]

\* The seek leaves out the size of the section start
ExistingChunkInPlacePathShortSeek(m, chunk, fail) ==
    LET entry == m.ot[chunk + 1]
        segment_number == entry.segment_file_handle[2]
        segment_file_offset == entry.file_offset - SizeofDeltaChunkHeader
    IN  IF fail = "seek_offset"
        THEN Fails([m EXCEPT !.segment_number = segment_number],
                   "seek_offset", fail)
        ELSE [m EXCEPT !.segment_number = segment_number,
                       !.st = [m.st EXCEPT ![segment_number] =
                                  FileSeek(m.st[segment_number],
                                           segment_file_offset)]]

\* Lines 2207-2228: the chunk is in a delta segment file: seek to the start
\* of its delta_chunk section
ExistingChunkInPlacePath(m, chunk, fail) ==
    LET entry == m.ot[chunk + 1]
        segment_number == entry.segment_file_handle[2]
        segment_file_offset ==
            (entry.file_offset - SizeofDeltaChunkHeader) - SizeofSection
    IN  IF fail = "seek_offset"
        THEN Fails([m EXCEPT !.segment_number = segment_number],
                   "seek_offset", fail)
        ELSE [m EXCEPT !.segment_number = segment_number,
                       !.st = [m.st EXCEPT ![segment_number] =
                                  FileSeek(m.st[segment_number],
                                           segment_file_offset)]]

\* The bytes of the delta chunk are added to write_count, as the primary
\* write does for the bytes of a chunk
ExistingChunkWriteCounts(m, chunk, chunk_size, write_crc, no_section_append, fail) ==
    IF m.done
    THEN m
    ELSE IF fail = "write_delta_chunk"
    THEN Fails(m, "write_delta_chunk", fail)
    ELSE
    LET w == segment_file_write_delta_chunk(m.st[m.segment_number], m.ot, chunk,
                                            chunk_size, write_crc,
                                            no_section_append)
        m1 == Issue([m EXCEPT
                !.st = [m.st EXCEPT ![m.segment_number] = w.sf],
                !.ot = w.ot,
                !.h = [m.h EXCEPT !.write_count = m.h.write_count + w.count],
                !.total_write_count = m.total_write_count + w.count],
              "write_delta_chunk")
    IN  IF no_section_append # 0
        THEN m1
        ELSE IF fail = "write_done_section"
        THEN Fails(m1, "write_done_section", fail)
        ELSE
        LET l == segment_file_write_last_section(w.sf, 1)
        IN  Issue([m1 EXCEPT
                !.st = [m1.st EXCEPT ![m.segment_number] = l.sf],
                !.total_write_count = m1.total_write_count + l.count],
              "write_done_section")

\* Lines 2251-2302: write the delta chunk and, when it was appended, the
\* done section
ExistingChunkWrite(m, chunk, chunk_size, write_crc, no_section_append, fail) ==
    IF m.done
    THEN m
    ELSE IF fail = "write_delta_chunk"
    THEN Fails(m, "write_delta_chunk", fail)
    ELSE
    LET w == segment_file_write_delta_chunk(m.st[m.segment_number], m.ot, chunk,
                                            chunk_size, write_crc,
                                            no_section_append)
        m1 == Issue([m EXCEPT
                !.st = [m.st EXCEPT ![m.segment_number] = w.sf],
                !.ot = w.ot,
                !.total_write_count = m.total_write_count + w.count],
              "write_delta_chunk")
    IN  IF no_section_append # 0
        THEN m1
        ELSE IF fail = "write_done_section"
        THEN Fails(m1, "write_done_section", fail)
        ELSE
        LET l == segment_file_write_last_section(w.sf, 1)
        IN  Issue([m1 EXCEPT
                !.st = [m1.st EXCEPT ![m.segment_number] = l.sf],
                !.total_write_count = m1.total_write_count + l.count],
              "write_done_section")

\* Lines 1974-2302: the path the chunk takes and the write of the delta chunk
ExistingChunkPaths(m, chunk, chunk_size, write_crc, fail) ==
    LET in_place == ~m.done /\ ChunkInDeltaSegmentFile(m.ot, chunk)
    IN  CHOOSE m2 \in
            { ExistingChunkWrite(m1, chunk, chunk_size, write_crc,
                                 IF in_place THEN 1 ELSE 0, fail) :
              m1 \in { IF m.done THEN m
                       ELSE IF in_place
                       THEN ExistingChunkInPlacePath(m, chunk, fail)
                       ELSE ExistingChunkAppendPath(m, chunk_size, fail) } } :
            TRUE

\* libewf_write_io_handle_write_existing_chunk, as a function of the state at
\* entry; st is the delta segment table
write_existing_chunk(h, st, ot, chunk, chunk_size, is_compressed, write_crc, fail) ==
    CHOOSE m \in
        { IF m2.done THEN m2 ELSE Return(m2, m2.total_write_count) :
          m2 \in { ExistingChunkPaths(m0, chunk, chunk_size, write_crc, fail) :
          m0 \in { ExistingChunkChecks(StartCall(h, st, ot), chunk,
                                       chunk_size, is_compressed) } } } : TRUE

-----------------------------------------------------------------------------
(* Finalize.  It is the caller's close of the write: the open chunks section
   is corrected, the last segment file is closed with a done section and
   write_finalized is set. *)

write_finalize(h, st, media, io) ==
    LET m0 == StartCall(h, st, <<>>)
        open == m0.segment_number # 0 /\ st[m0.segment_number].write_open = 1
        m1 == IF open /\ h.chunks_section_offset # 0
              THEN LET w == segment_file_write_chunks_correction(
                                st[m0.segment_number], h.chunks_section_offset,
                                h.chunks_section_write_count,
                                h.section_amount_of_chunks,
                                io.format, io.ewf_format)
                   IN  Issue([m0 EXCEPT
                           !.st = [st EXCEPT ![m0.segment_number] = w.sf],
                           !.total_write_count = w.count,
                           !.h = [h EXCEPT
                               !.write_count = h.write_count + w.count,
                               !.create_chunks_section = 1,
                               !.chunks_section_offset = 0]],
                         "write_chunks_correction")
              ELSE m0
        m2 == IF open
              THEN LET w == segment_file_write_close(
                                m1.st[m0.segment_number],
                                m1.h.segment_amount_of_chunks, 1)
                   IN  Issue([m1 EXCEPT
                           !.st = [m1.st EXCEPT ![m0.segment_number] = w.sf],
                           !.total_write_count = m1.total_write_count + w.count,
                           !.h = [m1.h EXCEPT
                               !.write_count = m1.h.write_count + w.count]],
                         "write_close_done")
              ELSE m1
    IN  IF h.write_finalized = 1
        THEN Return(m0, 0)
        ELSE Return([m2 EXCEPT !.h = [m2.h EXCEPT !.write_finalized = 1]],
                    m2.total_write_count)

-----------------------------------------------------------------------------
(* The state machine *)

\* libewf_write_io_handle_initialize, followed by the settings of the write
InitialHandle(segment_file_size, maximum_section_amount_of_chunks, unrestrict_offset_amount) ==
    [maximum_segment_file_size |-> INT32_MAX,
     segment_file_size |-> segment_file_size,
     remaining_segment_file_size |-> DefaultSegmentFileSize,
     delta_segment_file_size |-> INT64_MAX,
     maximum_section_amount_of_chunks |-> maximum_section_amount_of_chunks,
     unrestrict_offset_amount |-> unrestrict_offset_amount,
     chunks_per_segment |-> 0,
     chunks_per_chunks_section |-> 0,
     chunks_section_offset |-> 0,
     chunks_section_number |-> 0,
     chunks_section_write_count |-> 0,
     segment_amount_of_chunks |-> 0,
     section_amount_of_chunks |-> 0,
     amount_of_chunks |-> 0,
     input_write_count |-> 0,
     write_count |-> 0,
     amount_of_table_offsets |-> 0,
     create_chunks_section |-> 0,
     write_finalized |-> 0]

Formats ==
    { [ewf_format |-> "S01", format |-> "SMART"],
      [ewf_format |-> "E01", format |-> "ENCASE1"],
      [ewf_format |-> "E01", format |-> "ENCASE5"] }

\* Media of n chunks; n = 0: the media size is not known
Media(n) ==
    [chunk_size |-> ChunkSize, amount_of_chunks |-> n,
     media_size |-> n * ChunkSize]

NoCall ==
    [op |-> "none", chunk |-> 0, is_compressed |-> 0, result |-> 0,
     ops |-> <<>>, failed |-> "none", already_set |-> FALSE,
     finalized |-> FALSE, reached |-> FALSE]

InitWith(formats, medias, sizes, maxima, unrestricts) ==
    /\ io_handle \in formats
    /\ media_values \in medias
    /\ \E size \in sizes, maximum \in maxima, unrestrict \in unrestricts:
          write_io_handle = InitialHandle(size, maximum, unrestrict)
    /\ offset_table = <<>>
    /\ segment_table = <<>>
    /\ delta_segment_table = <<>>
    /\ call = NoCall
    /\ failures = 0

Init ==
    InitWith(Formats, {Media(0), Media(MaxChunk)},
             {SmallSegmentFileSize}, {SectionChunks}, {0, 1})

\* The settings of the runs that pass any chunk
InitRestricted ==
    InitWith(Formats, {Media(0), Media(MaxChunk)},
             {SmallSegmentFileSize}, {SectionChunks}, {0})

\* The settings of the runs that fill one large segment file
InitSections ==
    InitWith(Formats, {Media(FewChunks), Media(ManyChunks)},
             {SectionsSegmentFileSize}, {1, FewSectionChunks}, {0})

\* The settings of the runs in which the segment file has room
InitRoomy ==
    InitWith(Formats, {Media(0), Media(MaxChunk)},
             {RoomySegmentFileSize}, {SectionChunks}, {0, 1})

\* The settings of the runs that write a media of known size
InitShort ==
    InitWith(Formats, {Media(MaxChunk)}, {SmallSegmentFileSize, RoomySegmentFileSize},
             {SectionChunks}, {0, 1})

\* The settings of the runs that write delta chunks
InitDelta ==
    InitWith(Formats, {Media(0), Media(MaxChunk)},
             {SmallSegmentFileSize}, {SectionChunks}, {0})

\* The settings of the runs that fill a delta segment file
InitDeltaRollover ==
    InitWith(Formats, {Media(0)}, {TightSegmentFileSize, SnugSegmentFileSize},
             {SectionChunks}, {0})

\* The chunk data a caller passes: raw with the CRC in the buffer, raw with
\* the CRC apart, or compressed.  EWF-S01 chunks are always compressed.
Payloads(io, media) ==
    IF io.ewf_format = "S01"
    THEN { [chunk_size |-> CompressedChunkSize, is_compressed |-> 1, write_crc |-> 0],
           [chunk_size |-> InflatedChunkSize, is_compressed |-> 1, write_crc |-> 0] }
    ELSE { [chunk_size |-> media.chunk_size + SizeofCrc, is_compressed |-> 0,
            write_crc |-> 0],
           [chunk_size |-> media.chunk_size, is_compressed |-> 0, write_crc |-> 1],
           [chunk_size |-> CompressedChunkSize, is_compressed |-> 1, write_crc |-> 0] }

NewChunkFailures ==
    {"offset_table_resize", "create_segment_file", "write_start", "get_offset",
     "reallocate", "write_chunks_section_start", "write_chunks_data",
     "get_offset_2", "reallocate_2", "write_chunks_correction", "write_close"}

ExistingChunkFailures ==
    {"create_segment_file", "write_start", "get_offset", "seek_offset",
     "write_last_section", "write_delta_chunk", "write_done_section"}

CallOf(op, chunk, is_compressed, m) ==
    [op |-> op, chunk |-> chunk, is_compressed |-> is_compressed,
     result |-> m.result, ops |-> m.ops, failed |-> m.failed,
     already_set |-> ChunkIsSet(offset_table, chunk),
     finalized |-> write_io_handle.write_finalized = 1,
     reached |-> /\ media_values.media_size # 0
                 /\ write_io_handle.input_write_count >= media_values.media_size]

\* A call of libewf_write_io_handle_write_new_chunk with chunk data of
\* chunk_data_size bytes, in which fail fails
NewChunkCallOf(chunk, payload, chunk_data_size, fail) ==
    \E m \in {write_new_chunk(write_io_handle, segment_table, offset_table,
                              media_values, io_handle, chunk, payload.chunk_size,
                              chunk_data_size, payload.is_compressed,
                              payload.write_crc, fail)}:
        /\ fail # "none" => m.failed = fail
        /\ write_io_handle' = m.h
        /\ segment_table' = m.st
        /\ offset_table' = m.ot
        /\ call' = CallOf("write_new_chunk", chunk, payload.is_compressed, m)
        /\ UNCHANGED <<io_handle, media_values, delta_segment_table>>

\* The call with the data of a whole chunk
NewChunkCall(chunk, payload, fail) ==
    NewChunkCallOf(chunk, payload, media_values.chunk_size, fail)

\* The chunks a caller that writes the media in order passes: the next chunk,
\* or once more a chunk it has written
ChunksInOrder ==
    {chunk \in 0..MaxChunk:
        \/ chunk = write_io_handle.amount_of_chunks
        \/ ChunkIsSet(offset_table, chunk)}

WriteNewChunk ==
    \E chunk \in ChunksInOrder, payload \in Payloads(io_handle, media_values):
        /\ NewChunkCall(chunk, payload, "none")
        /\ UNCHANGED failures

\* The chunk data of a caller that does not compress: raw with the CRC apart
\* (compressed for EWF-S01, which has no raw chunks)
PlainPayload(io, media) ==
    IF io.ewf_format = "S01"
    THEN [chunk_size |-> CompressedChunkSize, is_compressed |-> 1, write_crc |-> 0]
    ELSE [chunk_size |-> media.chunk_size, is_compressed |-> 0, write_crc |-> 1]

\* A caller that writes plain chunks in order, or once more a chunk that is
\* written
WriteRawChunk ==
    \E chunk \in ChunksInOrder:
        /\ NewChunkCall(chunk, PlainPayload(io_handle, media_values), "none")
        /\ UNCHANGED failures

\* The chunk data of chunk_data_size bytes of a caller that does not
\* compress
ShortPayload(io, media, chunk_data_size) ==
    IF io.ewf_format = "S01"
    THEN [chunk_size |-> CompressedChunkSize, is_compressed |-> 1, write_crc |-> 0]
    ELSE [chunk_size |-> chunk_data_size, is_compressed |-> 0, write_crc |-> 1]

\* A caller that writes plain chunks in order, of which some hold less data
\* than the chunk size
WriteShortChunk ==
    \E chunk \in ChunksInOrder,
       chunk_data_size \in {ShortDataSize, media_values.chunk_size}:
        /\ NewChunkCallOf(chunk,
                          ShortPayload(io_handle, media_values, chunk_data_size),
                          chunk_data_size, "none")
        /\ UNCHANGED failures

\* A caller that writes the chunks of the media in order, each once
WriteNextChunk ==
    /\ write_io_handle.amount_of_chunks < media_values.amount_of_chunks
    /\ NewChunkCall(write_io_handle.amount_of_chunks,
                    PlainPayload(io_handle, media_values), "none")
    /\ UNCHANGED failures

\* A caller that passes any chunk
WriteAnyChunk ==
    \E chunk \in 0..MaxChunk, payload \in Payloads(io_handle, media_values):
        /\ NewChunkCall(chunk, payload, "none")
        /\ UNCHANGED failures

WriteNewChunkFails ==
    \E chunk \in ChunksInOrder, payload \in Payloads(io_handle, media_values),
       fail \in NewChunkFailures:
        /\ failures < MaxFailures
        /\ NewChunkCall(chunk, payload, fail)
        /\ failures' = failures + 1

\* The chunk data a caller passes to a delta write: raw with the CRC apart,
\* or compressed
DeltaPayloads(media) ==
    { [chunk_size |-> media.chunk_size, is_compressed |-> 0, write_crc |-> 1],
      [chunk_size |-> CompressedChunkSize, is_compressed |-> 1, write_crc |-> 0] }

\* The delta chunk sections written so far
DeltaChunks(st) ==
    LET RECURSIVE Count(_)
        Count(i) == IF i = 0 THEN 0
                    ELSE Count(i - 1)
                         + Cardinality({j \in 1..Len(st[i].section_list):
                               st[i].section_list[j].type = "delta_chunk"})
    IN  Count(Len(st))

\* A call of libewf_write_io_handle_write_existing_chunk in which fail fails
ExistingChunkCall(chunk, payload, fail) ==
    \E m \in {write_existing_chunk(write_io_handle, delta_segment_table,
                                   offset_table, chunk, payload.chunk_size,
                                   payload.is_compressed, payload.write_crc,
                                   fail)}:
        /\ fail # "none" => m.failed = fail
        /\ DeltaChunks(delta_segment_table) < MaxDeltaWrites
        /\ write_io_handle' = m.h
        /\ delta_segment_table' = m.st
        /\ offset_table' = m.ot
        /\ call' = CallOf("write_existing_chunk", chunk,
                         payload.is_compressed, m)
        /\ UNCHANGED <<io_handle, media_values, segment_table>>

WriteExistingChunk ==
    \E chunk \in 0..MaxChunk, payload \in DeltaPayloads(media_values):
        /\ ExistingChunkCall(chunk, payload, "none")
        /\ UNCHANGED failures

\* The chunk data of a delta write of a caller that passes chunks of the
\* chunk size and chunks that hold less
DeltaSizedPayloads(media) ==
    { [chunk_size |-> chunk_size, is_compressed |-> 0, write_crc |-> 1] :
        chunk_size \in {ShortDataSize, media.chunk_size} }

WriteExistingChunkSized ==
    \E chunk \in 0..MaxChunk, payload \in DeltaSizedPayloads(media_values):
        /\ ExistingChunkCall(chunk, payload, "none")
        /\ UNCHANGED failures

WriteExistingChunkFails ==
    \E chunk \in 0..MaxChunk, payload \in DeltaPayloads(media_values),
       fail \in ExistingChunkFailures:
        /\ failures < MaxFailures
        /\ ExistingChunkCall(chunk, payload, fail)
        /\ failures' = failures + 1

Finalize ==
    \E m \in {write_finalize(write_io_handle, segment_table, media_values,
                             io_handle)}:
        /\ write_io_handle' = m.h
        /\ segment_table' = m.st
        /\ call' = CallOf("finalize", 0, 0, m)
        /\ UNCHANGED <<io_handle, media_values, offset_table,
                       delta_segment_table, failures>>

\* The chunk data a caller passes to process_chunk: the bytes, in the data
\* buffer of the chunk cache, in its compressed buffer or in a buffer of the
\* caller
ChunkDatas(media) ==
    LET Bytes(n) == [1..n -> {0, 1}]
        sized == UNION {Bytes(n) : n \in 0..MaxDataSize}
                 \cup {[i \in 1..(media.chunk_size + 1) |-> 0]}
    IN  {[buffer |-> buffer, bytes |-> bytes] :
            buffer \in {"chunk_cache_data", "chunk_cache_compressed", "caller"},
            bytes \in sized}

\* The arguments of a call of process_chunk
ProcessChunkInputs(media) ==
    [compression_level : {"NONE", "DEFAULT"},
     compress_empty_block : {0, 1},
     chunk_data : ChunkDatas(media),
     compressed_chunk_data : {"chunk_cache_compressed", "caller"},
     compressed_chunk_data_size : {0, SmallBufferSize, LargeBufferSize},
     deflated : {CompressedChunkSize, media.chunk_size, InflatedChunkSize},
     fail : {"none", "compress", "resize", "compress_again"}]

\* The call, its arguments and its results
ProcessChunkCall(op, input, output) ==
    [op |-> op, chunk |-> 0, is_compressed |-> output.is_compressed,
     result |-> output.result, ops |-> <<>>, failed |-> input.fail,
     already_set |-> FALSE, finalized |-> FALSE, reached |-> FALSE,
     input |-> input, output |-> output]

\* A handle and the arguments of the call of process_chunk to come
InitProcess ==
    /\ io_handle \in Formats
    /\ media_values \in {Media(0), [Media(0) EXCEPT !.chunk_size = TinyChunkSize]}
    /\ write_io_handle = InitialHandle(SmallSegmentFileSize, SectionChunks, 0)
    /\ offset_table = <<>>
    /\ segment_table = <<>>
    /\ delta_segment_table = <<>>
    /\ call \in {ProcessChunkCall("none", input, ProcessChunkFails(0)) :
                    input \in ProcessChunkInputs(media_values)}
    /\ failures = 0

\* A call of libewf_write_io_handle_process_chunk
ProcessChunk ==
    /\ call.op = "none"
    /\ call' = ProcessChunkCall(
            "process_chunk", call.input,
            process_chunk(media_values, call.input.compression_level,
                          call.input.compress_empty_block,
                          io_handle.ewf_format, call.input.chunk_data,
                          Len(call.input.chunk_data.bytes),
                          call.input.compressed_chunk_data,
                          call.input.compressed_chunk_data_size,
                          call.input.deflated, call.input.fail))
    /\ UNCHANGED <<write_io_handle, io_handle, media_values, offset_table,
                   segment_table, delta_segment_table, failures>>

\* The chunk processor on its own
NextProcess == ProcessChunk

SpecProcess == InitProcess /\ [][NextProcess]_vars

\* The arguments of a call of one of the functions of the planner.  planned
\* is chunks_per_segment or chunks_per_chunks_section, amount the amount of
\* chunks written so far; an argument the function does not have is 0.
PlannerInput(function, remaining, maximum, unrestrict, segment_chunks, section_chunks, amount, planned, number, input_write_count, section_offset, file_offset) ==
    [function |-> function, remaining_segment_file_size |-> remaining,
     maximum_section_amount_of_chunks |-> maximum,
     unrestrict_offset_amount |-> unrestrict,
     segment_amount_of_chunks |-> segment_chunks,
     section_amount_of_chunks |-> section_chunks, amount_of_chunks |-> amount,
     planned |-> planned, chunks_section_number |-> number,
     input_write_count |-> input_write_count,
     chunks_section_offset |-> section_offset,
     segment_file_offset |-> file_offset]

ChunksPerSegmentInputs ==
    {PlannerInput("calculate_chunks_per_segment", remaining, maximum, unrestrict,
                  segment_chunks, 0, amount, 0, 0, 0, Off64(0), Off64(0)) :
        remaining \in 0..MaxPlannerRemaining, maximum \in {1, SectionChunks},
        unrestrict \in {0, 1}, segment_chunks \in 0..SectionChunks,
        amount \in 0..(MaxChunk + 1)}

ChunksPerChunksSectionInputs ==
    {PlannerInput("calculate_chunks_per_chunks_section", 0, maximum, unrestrict,
                  0, 0, 0, planned, number, 0, Off64(0), Off64(0)) :
        maximum \in {0, 1, SectionChunks, INT32_MAX}, unrestrict \in {0, 1},
        planned \in (0..(MaxChunk + 2))
                    \cup {INT32_MAX, (-INT32_MAX) - 1, UINT32_MAX},
        number \in (0..MaxSectionNumber) \cup {UINT8_MOD - 1}}

SegmentFileFullInputs(media) ==
    {PlannerInput("test_segment_file_full", remaining, 0, 0, segment_chunks, 0,
                  amount, planned, 0, input_chunks * media.chunk_size,
                  Off64(0), Off64(0)) :
        remaining \in {-1} \cup ((media.chunk_size + SizeofCrc - 2)
                                 ..(media.chunk_size + SizeofCrc + 1)),
        segment_chunks \in 0..SectionChunks,
        amount \in 0..(MaxChunk + 1),
        planned \in (0..SectionChunks) \cup {UINT32_MAX},
        input_chunks \in 0..(MaxChunk + 1)}

ChunksSectionFullInputs(media) ==
    {PlannerInput("test_chunks_section_full", remaining, maximum, unrestrict, 0,
                  section_chunks, amount, planned, 0,
                  input_chunks * media.chunk_size, section_offset, file_offset) :
        remaining \in {media.chunk_size + SizeofCrc - 1,
                       media.chunk_size + SizeofCrc},
        maximum \in {1, SectionChunks, INT32_MAX}, unrestrict \in {0, 1},
        section_chunks \in (0..SectionChunks)
                           \cup {INT32_MAX, (-INT32_MAX) - 1},
        amount \in {0, MaxChunk}, planned \in {1, SectionChunks, INT32_MAX},
        input_chunks \in {0, MaxChunk},
        section_offset \in {Off64(0), Off64(WriteStartCount(1))},
        file_offset \in {Off64(WriteStartCount(1) + SizeofSection),
                         <<1, WriteStartCount(1) - 1>>,
                         <<1, WriteStartCount(1)>>}}

PlannerInputs(media) ==
    ChunksPerSegmentInputs \cup ChunksPerChunksSectionInputs
    \cup SegmentFileFullInputs(media) \cup ChunksSectionFullInputs(media)

\* The call, its arguments and its results: result is the value returned
\* and value the amount of chunks passed back
PlannerCall(op, input, result, value) ==
    [op |-> op, chunk |-> 0, is_compressed |-> 0, result |-> result,
     ops |-> <<>>, failed |-> "none", already_set |-> FALSE,
     finalized |-> FALSE, reached |-> FALSE, input |-> input,
     output |-> [result |-> result, value |-> value]]

\* The format, the media and the arguments of the call of the planner to come
InitPlanner ==
    /\ io_handle \in Formats
    /\ media_values \in {Media(0), Media(MaxChunk)}
    /\ write_io_handle = InitialHandle(SmallSegmentFileSize, SectionChunks, 0)
    /\ offset_table = <<>>
    /\ segment_table = <<>>
    /\ delta_segment_table = <<>>
    /\ call \in {PlannerCall("none", input, 0, 0) :
                    input \in PlannerInputs(media_values)}
    /\ failures = 0

\* The call of the function of the planner named function returns result and
\* passes back value
PlannerReturns(function, result, value) ==
    /\ call.op = "none"
    /\ call.input.function = function
    /\ call' = PlannerCall(function, call.input, result, value)
    /\ UNCHANGED <<write_io_handle, io_handle, media_values, offset_table,
                   segment_table, delta_segment_table, failures>>

\* A call of libewf_write_io_handle_calculate_chunks_per_segment
CalculateChunksPerSegment ==
    /\ call.input.function = "calculate_chunks_per_segment"
    /\ \E chunks_per_segment \in {calculate_chunks_per_segment(
            call.input.remaining_segment_file_size,
            call.input.maximum_section_amount_of_chunks,
            call.input.segment_amount_of_chunks, call.input.amount_of_chunks,
            media_values, io_handle.format, io_handle.ewf_format,
            call.input.unrestrict_offset_amount)}:
        PlannerReturns("calculate_chunks_per_segment", 1, chunks_per_segment)

\* A call of libewf_write_io_handle_calculate_chunks_per_chunks_section
CalculateChunksPerChunksSection ==
    /\ call.input.function = "calculate_chunks_per_chunks_section"
    /\ \E c \in {calculate_chunks_per_chunks_section(
                  call.input.maximum_section_amount_of_chunks,
                  call.input.planned, call.input.chunks_section_number,
                  call.input.unrestrict_offset_amount)}:
        PlannerReturns("calculate_chunks_per_chunks_section",
                       IF c.ok THEN 1 ELSE -1, c.value)

\* A call of libewf_write_io_handle_test_segment_file_full
TestSegmentFileFull ==
    /\ call.input.function = "test_segment_file_full"
    /\ \E result \in {test_segment_file_full(
            call.input.remaining_segment_file_size,
            call.input.segment_amount_of_chunks, media_values,
            call.input.input_write_count, call.input.planned,
            call.input.amount_of_chunks, io_handle.format,
            io_handle.ewf_format)}:
        PlannerReturns("test_segment_file_full", result, 0)

\* A call of libewf_write_io_handle_test_chunks_section_full
TestChunksSectionFull ==
    /\ call.input.function = "test_chunks_section_full"
    /\ \E result \in {test_chunks_section_full(
            call.input.chunks_section_offset,
            call.input.remaining_segment_file_size, media_values,
            call.input.input_write_count, call.input.segment_file_offset,
            call.input.maximum_section_amount_of_chunks,
            call.input.section_amount_of_chunks, call.input.amount_of_chunks,
            call.input.planned, io_handle.format, io_handle.ewf_format,
            call.input.unrestrict_offset_amount)}:
        PlannerReturns("test_chunks_section_full", result, 0)

\* The functions of the capacity planner on their own
NextPlanner ==
    \/ CalculateChunksPerSegment
    \/ CalculateChunksPerChunksSection
    \/ TestSegmentFileFull
    \/ TestChunksSectionFull

SpecPlanner == InitPlanner /\ [][NextPlanner]_vars

\* The sum of two off64_t values as <<high, low>>
Off64Add(a, b) ==
    IF a[2] > INT32_MAX - b[2]
    THEN <<a[1] + b[1] + 1, (a[2] - (INT32_MAX - b[2])) - 1>>
    ELSE <<a[1] + b[1], a[2] + b[2]>>

\* sizeof( ewf_table_offset_t ) * amount for a uint32_t amount below 2^31, as
\* an off64_t value
TableOffsetsSize64(amount) ==
    <<amount \div 536870912, (amount % 536870912) * SizeofTableOffset>>

\* ChunksSectionStartCount as an off64_t value: the count written by
\* libewf_segment_file_write_chunks_section_start
ChunksSectionStartCount64(chunks_per_chunks_section, format, ewf_format) ==
    IF TableInFront(format, ewf_format)
    THEN Off64Add(TableOffsetsSize64(chunks_per_chunks_section),
                  Off64(SizeofSection + SizeofTable
                        + (IF ewf_format = "S01" THEN 0 ELSE SizeofCrc)))
    ELSE Off64(SizeofSection)

\* Lines 1398-1566 on the segment file that m has created, with off64_t
\* offsets: the offset of the chunks section (line 1430), the amounts of
\* chunks (lines 1453 and 1485) and the offset at which
\* libewf_segment_file_write_chunks_data (line 1566) writes the chunk
SectionStartOffsets(m, media, io) ==
    LET sf == m.st[m.segment_number]
        h2 == [m.h EXCEPT !.create_chunks_section = 0,
                          !.section_amount_of_chunks = 0,
                          !.chunks_section_write_count = 0,
                          !.remaining_segment_file_size =
                              m.h.remaining_segment_file_size
                              - ChunksSectionReserve(io),
                          !.chunks_section_offset = sf.offset,
                          !.chunks_section_number =
                              (m.h.chunks_section_number + 1) % UINT8_MOD]
        h3 == SetChunksPerSegment(h2, sf, media, io)
        c == calculate_chunks_per_chunks_section(
                 h3.maximum_section_amount_of_chunks,
                 h3.chunks_per_segment, h3.chunks_section_number,
                 h3.unrestrict_offset_amount)
    IN  [result |-> IF c.ok THEN 1 ELSE -1,
         chunks_per_segment |-> h3.chunks_per_segment,
         chunks_per_chunks_section |-> c.value,
         chunks_section_offset |-> Off64(sf.offset),
         chunk_offset |->
             IF c.ok
             THEN Off64Add(Off64(sf.offset),
                           ChunksSectionStartCount64(c.value, io.format,
                                                     io.ewf_format))
             ELSE Off64(sf.offset)]

\* The settings of the writes whose offsets are followed as off64_t values:
\* chunks of 16 bytes and of 64 sectors, segment files of 640 bytes and of
\* 1 MiB, sections of at most 2 and of at most 2^29 chunks
InitOffsets ==
    InitWith(Formats,
             {Media(0), Media(MaxChunk),
              [Media(0) EXCEPT !.chunk_size = SectorsChunkSize]},
             {SmallSegmentFileSize, MebiSegmentFileSize},
             {SectionChunks, LargeSectionChunks}, {0, 1})

\* The first libewf_write_io_handle_write_new_chunk of a write, up to the
\* call of libewf_segment_file_write_chunks_data: the segment file is created
\* and started, the chunks section is started.  The offsets of the chunks
\* section and of the chunk are passed back in call.output.
WriteFirstChunkOffsets ==
    /\ call.op = "none"
    /\ \E o \in {SectionStartOffsets(
                    NewChunkCreateSegment(
                        StartCall(write_io_handle, segment_table, offset_table),
                        media_values, io_handle, "none"),
                    media_values, io_handle)}:
          call' = [NoCall EXCEPT !.op = "write_first_chunk_offsets",
                                 !.result = o.result]
                  @@ [output |-> o]
    /\ UNCHANGED <<write_io_handle, io_handle, media_values, offset_table,
                   segment_table, delta_segment_table, failures>>

NextOffsets ==
    \/ WriteFirstChunkOffsets

SpecOffsets == InitOffsets /\ [][NextOffsets]_vars

\* EWF_MAXIMUM_OFFSETS_IN_TABLE
MaximumOffsetsInTable == 16375

\* *write_io_handle after a successful libewf_write_io_handle_initialize:
\* cleared by memory_set, then the assignments of lines 105-109
NewHandle == InitialHandle(DefaultSegmentFileSize, MaximumOffsetsInTable, 0)

\* What the call of memory_set with the destination NULL does.  The behaviour
\* is undefined: the process is ended by the write to address 0, or the call
\* passes back its destination NULL.
MemorySetOfNullOutcomes == {"crash", "returns_destination"}

\* libewf_write_io_handle_initialize.  argument = 0: write_io_handle is NULL;
\* handle: *write_io_handle, NullHandle for NULL.  null_set: memory_set was
\* called with the destination NULL.
\*
\* The test after memory_allocate (line 75) is of write_io_handle, which is
\* not NULL there, not of *write_io_handle: a failed allocation is not
\* noticed and memory_set is called with *write_io_handle = NULL.
write_io_handle_initialize(argument, handle, fail, outcome) ==
    IF argument = 0
    THEN [result |-> -1, handle |-> handle, returned |-> TRUE,
          null_set |-> FALSE, failed |-> "none"]
    ELSE IF handle # NullHandle
    THEN [result |-> 1, handle |-> handle, returned |-> TRUE,
          null_set |-> FALSE, failed |-> "none"]
    ELSE IF fail = "memory_allocate"
    THEN (IF outcome = "crash"
          THEN [result |-> 0, handle |-> NullHandle, returned |-> FALSE,
                null_set |-> TRUE, failed |-> fail]
          ELSE [result |-> -1, handle |-> NullHandle, returned |-> TRUE,
                null_set |-> TRUE, failed |-> fail])
    ELSE IF fail = "memory_set"
    THEN [result |-> -1, handle |-> NullHandle, returned |-> TRUE,
          null_set |-> FALSE, failed |-> fail]
    ELSE [result |-> 1, handle |-> NewHandle, returned |-> TRUE,
          null_set |-> FALSE, failed |-> "none"]

\* *write_io_handle before libewf_write_io_handle_initialize is called: NULL
\* or a write io handle that exists, with its settings
InitInitialize ==
    /\ io_handle \in Formats
    /\ media_values \in {Media(0), Media(MaxChunk)}
    /\ write_io_handle \in
          {NullHandle}
          \cup {InitialHandle(size, maximum, unrestrict) :
                    size \in {SmallSegmentFileSize, RoomySegmentFileSize},
                    maximum \in {SectionChunks, FewSectionChunks},
                    unrestrict \in {0, 1}}
    /\ offset_table = <<>>
    /\ segment_table = <<>>
    /\ delta_segment_table = <<>>
    /\ call = NoCall
    /\ failures = 0

\* A call of libewf_write_io_handle_initialize; no call follows one that
\* ended the process
Initialize ==
    /\ IF call.op = "none" THEN TRUE ELSE call.output.returned
    /\ \E argument \in {0, 1}, fail \in {"none", "memory_allocate", "memory_set"}, outcome \in MemorySetOfNullOutcomes:
          \E r \in {write_io_handle_initialize(argument, write_io_handle,
                                                fail, outcome)}:
            /\ write_io_handle' = r.handle
            /\ call' = [NoCall EXCEPT !.op = "initialize",
                                      !.result = r.result,
                                      !.failed = r.failed,
                                      !.already_set =
                                          write_io_handle # NullHandle]
                       @@ [input |-> [argument |-> argument,
                                      handle |-> write_io_handle],
                           output |-> r]
    /\ UNCHANGED <<io_handle, media_values, offset_table, segment_table,
                   delta_segment_table, failures>>

NextInitialize ==
    \/ Initialize

SpecInitialize == InitInitialize /\ [][NextInitialize]_vars

\* The primary path: appends in order, failures and finalize
Next ==
    \/ WriteNewChunk
    \/ WriteNewChunkFails
    \/ Finalize

Spec == Init /\ [][Next]_vars

\* The primary path of a caller that passes any chunk
NextAnyChunk ==
    \/ WriteAnyChunk
    \/ Finalize

SpecAnyChunk == InitRestricted /\ [][NextAnyChunk]_vars

\* The primary path and delta writes
NextDelta ==
    \/ WriteRawChunk
    \/ WriteExistingChunk
    \/ Finalize

SpecDelta == InitDelta /\ [][NextDelta]_vars

\* The primary path and delta writes that can fail
NextDeltaFails ==
    \/ WriteRawChunk
    \/ WriteExistingChunk
    \/ WriteExistingChunkFails

SpecDeltaFails == InitDelta /\ [][NextDeltaFails]_vars

\* The primary path, its finalize and delta writes that can fail
NextDeltaFinalize ==
    \/ WriteRawChunk
    \/ WriteExistingChunk
    \/ WriteExistingChunkFails
    \/ Finalize

SpecDeltaFinalize == InitDelta /\ [][NextDeltaFinalize]_vars

\* The primary path and delta writes of chunks of two sizes
NextDeltaSized ==
    \/ WriteRawChunk
    \/ WriteExistingChunkSized

SpecDeltaSized == InitDelta /\ [][NextDeltaSized]_vars

\* The primary path and delta writes with small segment files
NextDeltaRollover ==
    \/ WriteRawChunk
    \/ WriteExistingChunk

SpecDeltaRollover == InitDeltaRollover /\ [][NextDeltaRollover]_vars

\* The chunks of a media written in order into one large segment file
NextSections == WriteNextChunk

SpecSections == InitSections /\ [][NextSections]_vars

\* The primary path of a media of known size, with chunks that hold less
\* data than the chunk size
NextShort ==
    \/ WriteShortChunk
    \/ Finalize

SpecShort == InitShort /\ [][NextShort]_vars

\* The primary path into a segment file that has room
NextRoomy ==
    \/ WriteNewChunk
    \/ Finalize

SpecRoomy == InitRoomy /\ [][NextRoomy]_vars

-----------------------------------------------------------------------------
(* The claims *)

\* A step that is a call of libewf_write_io_handle_write_new_chunk; call'
\* describes it: its arguments, the state at entry and the result
NewChunkStep == call'.op = "write_new_chunk"

\* The call issued the writer operation op
Issued(c, op) == \E i \in 1..Len(c.ops): c.ops[i] = op

\* The chunk data was written in the call
DataWritten(c) == Issued(c, "write_chunks_data")

\* C1: once write_finalized = 1, write_new_chunk returns 0 for every call,
\* whatever chunk is passed, also a chunk that is already set in the offset
\* table.
C1_FinalizedReturnsZero ==
    (call.op = "write_new_chunk" /\ call.finalized) => call.result = 0

\* C2: write_new_chunk of a chunk that is already set in the offset table, by a
\* primary write or by a delta write, returns -1, writes nothing and leaves
\* the write io handle, the segment tables and the offset table as they were.
C2_AlreadySetRejected ==
    [][(NewChunkStep /\ call'.already_set)
        => /\ call'.result = -1
           /\ call'.ops = <<>>
           /\ write_io_handle' = write_io_handle
           /\ segment_table' = segment_table
           /\ delta_segment_table' = delta_segment_table
           /\ offset_table' = offset_table]_vars

\* C2 witness: write_new_chunk of a chunk that a delta write has set was
\* rejected
C2_Witness ==
    /\ call.op = "write_new_chunk"
    /\ call.already_set
    /\ call.result = -1
    /\ offset_table[call.chunk + 1].segment_file_handle[1] = "DWF"

\* C3: with the media size known and reached, write_new_chunk of a chunk that
\* is not set returns 0, writes nothing, creates no segment file and leaves
\* amount_of_chunks, segment_amount_of_chunks, section_amount_of_chunks,
\* input_write_count, write_count and remaining_segment_file_size as they
\* were; the media size stays reached, so this holds for every later call.
C3_MediaSizeReachedRejected ==
    [][(NewChunkStep /\ call'.reached /\ ~call'.already_set)
        => /\ call'.result = 0
           /\ call'.ops = <<>>
           /\ segment_table' = segment_table
           /\ write_io_handle'.amount_of_chunks = write_io_handle.amount_of_chunks
           /\ write_io_handle'.segment_amount_of_chunks
                  = write_io_handle.segment_amount_of_chunks
           /\ write_io_handle'.section_amount_of_chunks
                  = write_io_handle.section_amount_of_chunks
           /\ write_io_handle'.input_write_count
                  = write_io_handle.input_write_count
           /\ write_io_handle'.write_count = write_io_handle.write_count
           /\ write_io_handle'.remaining_segment_file_size
                  = write_io_handle.remaining_segment_file_size
           /\ media_values'.media_size # 0
           /\ write_io_handle'.input_write_count >= media_values'.media_size]_vars

\* C3 witness: a write of a chunk that is not set, before finalize, was
\* rejected because the media size was reached
C3_Witness ==
    /\ call.op = "write_new_chunk"
    /\ call.reached
    /\ ~call.already_set
    /\ ~call.finalized
    /\ call.result = 0
    /\ write_io_handle.amount_of_chunks = media_values.amount_of_chunks

\* C4 as claimed: a successful write_new_chunk returns the data bytes consumed
\* for the chunk (chunk_data_size), not the bytes written to the segment file.
C4_ReturnsDataSize ==
    (call.op = "write_new_chunk" /\ call.failed = "none" /\ DataWritten(call))
        => call.result = media_values.chunk_size

\* C4 as amended: a successful write_new_chunk returns the bytes the call
\* wrote to the segment file (segment file start, chunks section start, chunk
\* data, chunks correction and segment file close), the amount by which
\* write_count grew.
C4_ReturnsWriteCount ==
    [][(NewChunkStep /\ call'.failed = "none" /\ DataWritten(call'))
        => call'.result
              = write_io_handle'.write_count - write_io_handle.write_count]_vars

\* C4 witness: a call that created a segment file and a chunks section
\* returned more than the chunk
C4_Witness ==
    /\ call.op = "write_new_chunk"
    /\ call.failed = "none"
    /\ DataWritten(call)
    /\ Len(call.ops) >= 4
    /\ call.result > media_values.chunk_size + SizeofCrc

\* The chunks that are set in the offset table
ChunksSet(ot) == {chunk \in 0..(Len(ot) - 1): ChunkIsSet(ot, chunk)}

\* C5: after any calls of which N appended a chunk, whatever chunks the
\* caller passed, the offset table has the chunks 0..N-1 set and no chunk
\* from amount_of_chunks on.
C5_OffsetTableConsecutive ==
    ChunksSet(offset_table) = 0..(write_io_handle.amount_of_chunks - 1)

\* C6: write_new_chunk advances amount_of_chunks, segment_amount_of_chunks,
\* section_amount_of_chunks and input_write_count if and only if the chunk
\* data was written in the call, which also sets the chunk in the offset
\* table; so amount_of_chunks is always the amount of chunks that are set.
C6_CountersFollowChunkData ==
    [][/\ (NewChunkStep /\ DataWritten(call'))
           => /\ write_io_handle'.amount_of_chunks
                     = write_io_handle.amount_of_chunks + 1
              /\ write_io_handle'.input_write_count
                     = write_io_handle.input_write_count + media_values.chunk_size
              /\ write_io_handle'.segment_amount_of_chunks
                     = (IF Len(segment_table') > Len(segment_table) THEN 0
                        ELSE write_io_handle.segment_amount_of_chunks) + 1
              /\ write_io_handle'.section_amount_of_chunks
                     = (IF Issued(call', "write_chunks_section_start") THEN 0
                        ELSE write_io_handle.section_amount_of_chunks) + 1
              /\ ChunksSet(offset_table')
                     = ChunksSet(offset_table) \cup {call'.chunk}
       /\ (NewChunkStep /\ ~DataWritten(call'))
           => /\ write_io_handle'.amount_of_chunks
                     = write_io_handle.amount_of_chunks
              /\ write_io_handle'.input_write_count
                     = write_io_handle.input_write_count
              /\ write_io_handle'.segment_amount_of_chunks
                     \in {0, write_io_handle.segment_amount_of_chunks}
              /\ write_io_handle'.section_amount_of_chunks
                     \in {0, write_io_handle.section_amount_of_chunks}
              /\ ChunksSet(offset_table') = ChunksSet(offset_table)
       /\ write_io_handle'.amount_of_chunks
              = Cardinality(ChunksSet(offset_table'))]_vars

\* C6 witness: a call failed after the chunk data was written, with the
\* counters advanced and the chunk set
C6_Witness ==
    /\ call.op = "write_new_chunk"
    /\ call.result = -1
    /\ DataWritten(call)
    /\ ChunkIsSet(offset_table, call.chunk)
    /\ write_io_handle.amount_of_chunks = 2

\* C7: every primary segment file that is closed holds at most
\* segment_file_size bytes, its start, chunks sections, chunks, tables and
\* terminator included.
C7_SegmentFileSizeRespected ==
    \A i \in 1..Len(segment_table):
        segment_table[i].write_open = 0
            => segment_table[i].size <= write_io_handle.segment_file_size

\* The type of the last section of a segment file
LastSectionType(sf) ==
    IF sf.section_list = <<>> THEN "none"
    ELSE sf.section_list[Len(sf.section_list)].type

\* C8: when a call has closed the chunks section, the segment file is full
\* and more input remains, the same call closes the segment file with a next
\* section, and only then; the next call that writes creates a new segment
\* file and leaves the closed one alone; write_new_chunk never writes a done
\* section.
C8_SegmentRollover ==
    [][NewChunkStep
        => LET h == write_io_handle'
               last == Len(segment_table)
               full == test_segment_file_full(
                           h.remaining_segment_file_size,
                           h.segment_amount_of_chunks, media_values,
                           h.input_write_count, h.chunks_per_segment,
                           h.amount_of_chunks, io_handle.format,
                           io_handle.ewf_format) = 1
               more == \/ media_values.media_size = 0
                       \/ h.input_write_count < media_values.media_size
           IN  /\ call'.failed = "none"
                   => (Issued(call', "write_close")
                       <=> (Issued(call', "write_chunks_correction")
                            /\ full /\ more))
               /\ Issued(call', "write_close")
                   => LET sf == segment_table'[Len(segment_table')]
                      IN  sf.write_open = 0 /\ LastSectionType(sf) = "next"
               /\ (last > 0 /\ segment_table[last].write_open = 0
                      /\ call'.ops # <<>>)
                   => /\ call'.ops[1] = "create_segment_file"
                      /\ Len(segment_table') = last + 1
                      /\ segment_table'[last] = segment_table[last]
               /\ \A i \in 1..Len(segment_table'):
                      LastSectionType(segment_table'[i]) = "done"
                          => i <= last /\ segment_table'[i] = segment_table[i]]_vars

\* C8 witness: the first segment file was closed with a next section and the
\* call after it created the second segment file and wrote the chunk there
C8_Witness ==
    /\ Len(segment_table) = 2
    /\ segment_table[1].write_open = 0
    /\ LastSectionType(segment_table[1]) = "next"
    /\ call.op = "write_new_chunk"
    /\ Issued(call, "create_segment_file")
    /\ DataWritten(call)
    /\ offset_table[call.chunk + 1].segment_file_handle = <<"EWF", 2>>

\* The amounts of chunks of the chunks sections of a segment file
SectionAmounts(sf) ==
    LET IsChunksSection(section) == section.type \in {"table", "sectors"}
        sections == SelectSeq(sf.section_list, IsChunksSection)
    IN  [i \in 1..Len(sections) |-> sections[i].chunks]

\* C9: with unrestrict_offset_amount = 0 and a segment file that holds the n
\* chunks of the media, every write of the next chunk succeeds and the n
\* chunks end up in ceil(n/m) chunks sections of one segment file, m chunks
\* in each but the last, for every m and n, more than 255 sections included.
C9_SectionRollover ==
    LET n == media_values.amount_of_chunks
        m == write_io_handle.maximum_section_amount_of_chunks
        sections == ((n + m) - 1) \div m
    IN  /\ call.op = "write_new_chunk" => call.result > 0
        /\ write_io_handle.amount_of_chunks = n
            => /\ Len(segment_table) = 1
               /\ SectionAmounts(segment_table[1])
                      = [i \in 1..sections |->
                            IF i < sections THEN m ELSE n - (m * (sections - 1))]

\* C10: a call of write_new_chunk that returns -1 because a step failed
\* leaves amount_of_chunks, segment_amount_of_chunks,
\* section_amount_of_chunks, input_write_count, remaining_segment_file_size,
\* chunks_section_number and create_chunks_section as they were.
C10_FailureLeavesCounters ==
    [][(NewChunkStep /\ call'.result = -1 /\ call'.failed # "none")
        => /\ write_io_handle'.amount_of_chunks = write_io_handle.amount_of_chunks
           /\ write_io_handle'.segment_amount_of_chunks
                  = write_io_handle.segment_amount_of_chunks
           /\ write_io_handle'.section_amount_of_chunks
                  = write_io_handle.section_amount_of_chunks
           /\ write_io_handle'.input_write_count
                  = write_io_handle.input_write_count
           /\ write_io_handle'.remaining_segment_file_size
                  = write_io_handle.remaining_segment_file_size
           /\ write_io_handle'.chunks_section_number
                  = write_io_handle.chunks_section_number
           /\ write_io_handle'.create_chunks_section
                  = write_io_handle.create_chunks_section]_vars

\* A chunks section is open: its start has been written and its correction
\* has not
ChunksSectionOpen(st) ==
    Len(st) > 0 /\ st[Len(st)].chunks_section_open = 1

\* section_amount_of_chunks <= chunks_per_chunks_section <= chunks_per_segment
\* (chunks_per_segment is a uint32_t)
SectionWithinPlan(h) ==
    /\ h.section_amount_of_chunks <= h.chunks_per_chunks_section
    /\ U32Ge(h.chunks_per_segment, h.chunks_per_chunks_section)

\* C11: in every state between calls in which a chunks section is open, and
\* after every call that has closed a chunks section, section_amount_of_chunks
\* <= chunks_per_chunks_section <= chunks_per_segment, for all formats, with
\* and without the restriction of the offset amount, for raw and compressed
\* chunks.
C11_SectionWithinPlan ==
    /\ ChunksSectionOpen(segment_table) => SectionWithinPlan(write_io_handle)
    /\ Issued(call, "write_chunks_correction")
           => SectionWithinPlan(write_io_handle)

ChunksSectionClosed(st) ==
    \E i \in 1..Len(st): SectionAmounts(st[i]) # <<>>

\* C13: whenever a chunks section is open, chunks_section_offset # 0 and
\* create_chunks_section = 0; whenever no chunks section is open,
\* chunks_section_offset = 0 and, once a chunks section has been closed,
\* create_chunks_section = 1.
C13_OpenSectionFlags ==
    LET h == write_io_handle
    IN  IF ChunksSectionOpen(segment_table)
        THEN h.chunks_section_offset # 0 /\ h.create_chunks_section = 0
        ELSE /\ h.chunks_section_offset = 0
             /\ ChunksSectionClosed(segment_table) => h.create_chunks_section = 1

\* A step that is a call of libewf_write_io_handle_write_existing_chunk
ExistingChunkStep == call'.op = "write_existing_chunk"

\* C14: write_existing_chunk of a chunk that is beyond the offset table, of a
\* chunk whose offset table entry has no segment file, or with is_compressed
\* # 0, returns -1 and creates no delta segment file, seeks and writes
\* nothing, and leaves the offset table and the section lists as they were.
C14_DeltaPreconditions ==
    [][(ExistingChunkStep
        /\ (\/ call'.chunk >= Len(offset_table)
            \/ offset_table[call'.chunk + 1].segment_file_handle = NullHandle
            \/ call'.is_compressed # 0))
        => /\ call'.result = -1
           /\ call'.ops = <<>>
           /\ delta_segment_table' = delta_segment_table
           /\ segment_table' = segment_table
           /\ offset_table' = offset_table]_vars

\* C14 witness: a delta write of compressed chunk data to a chunk that is
\* written was rejected, with a chunk of the offset table that was never
\* written and a delta segment file present
C14_Witness ==
    /\ call.op = "write_existing_chunk"
    /\ call.is_compressed # 0
    /\ call.already_set
    /\ call.result = -1
    /\ Len(delta_segment_table) = 1
    /\ \E chunk \in 0..(Len(offset_table) - 1): ~ChunkIsSet(offset_table, chunk)

\* The section lists of the segment files of a segment table
SectionLists(st) == [i \in 1..Len(st) |-> st[i].section_list]

\* C15: a delta write that passes the checks takes the in-place path exactly
\* when the segment file of the chunk's offset table entry is a delta segment
\* file, and the append path otherwise.  On the in-place path it seeks in
\* that delta segment file to the entry's file_offset less the sizes of the
\* delta chunk header and of the section start and writes the delta chunk
\* there without a section list entry; the number of delta segment files,
\* every section list and every terminator stay as they were.
C15_InPlacePath ==
    [][(ExistingChunkStep /\ call'.already_set /\ call'.is_compressed = 0)
        => LET entry == offset_table[call'.chunk + 1]
               in_place == entry.segment_file_handle[1] = "DWF"
               number == entry.segment_file_handle[2]
           IN  /\ call'.result > 0
                   => /\ in_place <=> call'.ops = <<"write_delta_chunk">>
                      /\ ~in_place <=> Issued(call', "write_done_section")
               /\ in_place
                   => /\ Len(delta_segment_table') = Len(delta_segment_table)
                      /\ SectionLists(delta_segment_table')
                             = SectionLists(delta_segment_table)
                      /\ SectionLists(segment_table') = SectionLists(segment_table)
                      /\ \A i \in 1..Len(delta_segment_table):
                             i # number
                                 => delta_segment_table'[i] = delta_segment_table[i]
               /\ (in_place /\ call'.result > 0)
                   => /\ offset_table'[call'.chunk + 1].segment_file_handle
                             = entry.segment_file_handle
                      /\ offset_table'[call'.chunk + 1].file_offset
                             = entry.file_offset
                      /\ delta_segment_table'[number].offset
                             = (((entry.file_offset - SizeofDeltaChunkHeader)
                                 - SizeofSection) + call'.result)]_vars

\* C15 witness: a chunk that is in a delta segment file was written in place
C15_Witness ==
    /\ call.op = "write_existing_chunk"
    /\ call.already_set
    /\ call.result > 0
    /\ call.ops = <<"write_delta_chunk">>
    /\ offset_table[call.chunk + 1].segment_file_handle[1] = "DWF"
    /\ DeltaChunks(delta_segment_table) = 1

\* A successful delta write of a chunk that a delta write has written before
\* and that is the only delta chunk, with one primary segment file
SecondDeltaWrite ==
    /\ ExistingChunkStep
    /\ call'.result > 0
    /\ call'.already_set
    /\ offset_table[call'.chunk + 1].segment_file_handle[1] = "DWF"
    /\ Len(segment_table) = 1
    /\ DeltaChunks(delta_segment_table) = 1

\* The offset table entry of the chunk refers to the chunk data that the
\* call has just written to delta segment file 1
RefersToWrittenData(c, ot, st) ==
    LET entry == ot[c.chunk + 1]
    IN  /\ entry.segment_file_handle = <<"DWF", 1>>
        /\ entry.file_offset + entry.size
               = st[1].offset - (IF Issued(c, "write_done_section")
                                 THEN SizeofSection ELSE 0)

\* C16 as claimed: after primary writes and two delta writes of the same chunk
\* there is one primary and one delta segment file, the delta segment file
\* has two delta_chunk sections and the offset table entry of the chunk
\* refers to the data of the second delta write.
C16_TwoDeltaSections ==
    [][SecondDeltaWrite
        => /\ Len(segment_table') = 1
           /\ Len(delta_segment_table') = 1
           /\ DeltaChunks(delta_segment_table') = 2
           /\ RefersToWrittenData(call', offset_table', delta_segment_table')]_vars

\* C16 as amended: the first delta write of a chunk creates delta segment
\* file 1 with one delta_chunk section; the second delta write of the same
\* chunk overwrites that section in place, so there is one primary and one
\* delta segment file, the delta segment file still has one delta_chunk
\* section and the same section list, and the offset table entry of the
\* chunk refers to the data of the second delta write.
C16_OneDeltaSection ==
    [][/\ (ExistingChunkStep /\ call'.result > 0 /\ call'.already_set
            /\ delta_segment_table = <<>>)
           => /\ Len(segment_table') = Len(segment_table)
              /\ Len(delta_segment_table') = 1
              /\ DeltaChunks(delta_segment_table') = 1
              /\ RefersToWrittenData(call', offset_table', delta_segment_table')
       /\ SecondDeltaWrite
           => /\ Len(segment_table') = 1
              /\ Len(delta_segment_table') = 1
              /\ DeltaChunks(delta_segment_table') = 1
              /\ SectionLists(delta_segment_table')
                     = SectionLists(delta_segment_table)
              /\ RefersToWrittenData(call', offset_table', delta_segment_table')
              /\ offset_table'[call'.chunk + 1].file_offset
                     = offset_table[call'.chunk + 1].file_offset]_vars

\* C16 witness: three chunks were written to one primary segment file and
\* chunk 1 was written by a delta write that overwrote its delta chunk
C16_Witness ==
    /\ write_io_handle.amount_of_chunks = 3
    /\ Len(segment_table) = 1
    /\ call.op = "write_existing_chunk"
    /\ call.chunk = 1
    /\ call.result > 0
    /\ call.ops = <<"write_delta_chunk">>
    /\ Len(delta_segment_table) = 1
    /\ DeltaChunks(delta_segment_table) = 1

\* A successful delta write on the append path with a delta segment file
\* present
DeltaAppendStep ==
    /\ ExistingChunkStep
    /\ call'.result > 0
    /\ call'.already_set
    /\ offset_table[call'.chunk + 1].segment_file_handle[1] = "EWF"
    /\ Len(delta_segment_table) > 0

\* The start of the terminator of the last delta segment file, where an
\* appended delta chunk is placed
DeltaAppendOffset(st) ==
    LET sf == st[Len(st)]
    IN  sf.section_list[Len(sf.section_list)].start_offset

\* C17: the rollover of delta segment files is governed by
\* delta_segment_file_size (2^63 - 1 unless set), not by segment_file_size:
\* on the append path the delta chunk goes into the last delta segment file
\* whenever it fits within delta_segment_file_size, and a new delta segment
\* file is created only when it does not.
C17_DeltaRolloverBySize ==
    [][DeltaAppendStep
        => (Len(delta_segment_table') > Len(delta_segment_table)
            <=> ExceedsSize64(
                    DeltaAppendOffset(delta_segment_table)
                    + media_values.chunk_size + SizeofCrc + SizeofSection,
                    write_io_handle.delta_segment_file_size))]_vars

\* C18: after any sequence of successful delta writes every delta segment
\* file holds at most segment_file_size bytes (the limit of the fit test),
\* its start, delta_chunk sections and terminator included.
C18_DeltaSegmentFileSizeRespected ==
    \A i \in 1..Len(delta_segment_table):
        delta_segment_table[i].size <= write_io_handle.segment_file_size

\* The size a segment file had before the step (0: it did not exist)
SizeBefore(st, number) == IF number <= Len(st) THEN st[number].size ELSE 0

\* The writes of write_new_chunk to the primary segment files go forward: no
\* segment file shrinks, the chunk data lies beyond all that the segment
\* file held before the call, a chunks correction rewrites the section start
\* at chunks_section_offset, and after the call every segment file is
\* positioned at its end
PrimaryWritesForward ==
    NewChunkStep
        => /\ \A i \in 1..Len(segment_table):
                  segment_table'[i].size >= segment_table[i].size
           /\ \A i \in 1..Len(segment_table'):
                  segment_table'[i].offset = segment_table'[i].size
           /\ DataWritten(call')
                  => LET entry == offset_table'[call'.chunk + 1]
                         number == entry.segment_file_handle[2]
                     IN  /\ entry.file_offset >= SizeBefore(segment_table, number)
                         /\ entry.file_offset + entry.size
                                <= segment_table'[number].size
           /\ Issued(call', "write_chunks_correction")
                  => LET sf == segment_table'[Len(segment_table')]
                         sections == SelectSeq(sf.section_list,
                                        LAMBDA x: x.type \in {"table", "sectors"})
                         start == sections[Len(sections)].start_offset
                     IN  /\ write_io_handle.chunks_section_offset # 0
                            => start = write_io_handle.chunks_section_offset
                         /\ start < sf.size

\* The offset at which a successful delta write has written its delta_chunk
\* section
DeltaWriteOffset(ot, chunk) ==
    (ot[chunk + 1].file_offset - SizeofDeltaChunkHeader) - SizeofSection

\* C19 as claimed: within one segment file, primary or delta, the writes of
\* write_new_chunk and write_existing_chunk are at increasing file offsets,
\* the chunks correction being the only backward seek: a delta chunk is
\* written beyond all that its delta segment file held before the call.
C19_WritesOnlyForward ==
    [][/\ PrimaryWritesForward
       /\ (ExistingChunkStep /\ call'.result > 0 /\ call'.already_set)
           => DeltaWriteOffset(offset_table', call'.chunk)
                  >= SizeBefore(delta_segment_table,
                         offset_table'[call'.chunk + 1].segment_file_handle[2])]_vars

\* C19 as amended: within a primary segment file the writes of
\* write_new_chunk are at increasing file offsets, the chunks correction to
\* chunks_section_offset being the only backward seek, after which writing
\* resumes at the end of the file.  Within a delta segment file
\* write_existing_chunk seeks backward: on the append path to the start of
\* the last section of the last delta segment file (its terminator), which
\* the delta chunk overwrites, and on the in-place path to the start of the
\* delta_chunk section of the chunk; only in a new delta segment file the
\* delta chunk follows the end of the file.
C19_BackwardSeeks ==
    [][/\ PrimaryWritesForward
       /\ (ExistingChunkStep /\ call'.result > 0 /\ call'.already_set)
           => LET entry == offset_table[call'.chunk + 1]
                  number == offset_table'[call'.chunk + 1].segment_file_handle[2]
                  start == DeltaWriteOffset(offset_table', call'.chunk)
                  before == SizeBefore(delta_segment_table, number)
              IN  IF entry.segment_file_handle[1] = "DWF"
                  THEN /\ number = entry.segment_file_handle[2]
                       /\ start = DeltaWriteOffset(offset_table, call'.chunk)
                       /\ start < before
                  ELSE IF Len(delta_segment_table') = Len(delta_segment_table)
                  THEN /\ number = Len(delta_segment_table)
                       /\ start = DeltaAppendOffset(delta_segment_table)
                       /\ start < before
                  ELSE /\ number = Len(delta_segment_table')
                       /\ before = 0
                       /\ start = WriteStartCount(number)]_vars

\* C19 witness: a delta chunk was appended to a delta segment file that held
\* a delta chunk, over its terminator, after a chunks section of the primary
\* segment file was corrected
C19_Witness ==
    /\ call.op = "write_existing_chunk"
    /\ call.result > 0
    /\ call.ops = <<"write_delta_chunk", "write_done_section">>
    /\ Len(delta_segment_table) = 1
    /\ DeltaChunks(delta_segment_table) = 2
    /\ ChunksSectionClosed(segment_table)

\* C20: a call of process_chunk that succeeds reports is_compressed = 1 if
\* and only if ewf_format is S01 or the chunk was compressed to a size
\* smaller than the chunk size of the media (an equal size is stored raw).
\* Compressed, it returns the compressed size with write_crc = 0; raw, it
\* returns chunk_data_size + 4 with write_crc = 0 when the chunk data is in
\* the data buffer of the chunk cache and chunk_data_size with write_crc = 1
\* when it is in a buffer of the caller.
C20_ProcessChunkForm ==
    (call.op = "process_chunk" /\ call.result # -1)
        => LET input == call.input
               output == call.output
               chunk_data_size == Len(input.chunk_data.bytes)
           IN  /\ output.is_compressed = 1
                   <=> \/ io_handle.ewf_format = "S01"
                       \/ /\ output.compressions > 0
                          /\ input.deflated < media_values.chunk_size
               /\ output.is_compressed = 1
                   => output.result = input.deflated /\ output.write_crc = 0
               /\ output.is_compressed = 0
                   => IF input.chunk_data.buffer = "chunk_cache_data"
                      THEN /\ output.result = chunk_data_size + SizeofCrc
                           /\ output.write_crc = 0
                      ELSE /\ output.result = chunk_data_size
                           /\ output.write_crc = 1

\* A call of process_chunk that succeeded, made with compression_level NONE
\* and compress_empty_block = 1 for a chunk all of whose bytes are equal
EmptyBlockProcessed ==
    /\ call.op = "process_chunk"
    /\ call.result # -1
    /\ call.input.compression_level = "NONE"
    /\ call.input.compress_empty_block = 1
    /\ \A i, j \in DOMAIN call.input.chunk_data.bytes:
           call.input.chunk_data.bytes[i] = call.input.chunk_data.bytes[j]

\* C21 as stated: with compression_level NONE and compress_empty_block = 1,
\* process_chunk reports every empty block as compressed, for every format,
\* every chunk size of the media and every block length.
C21_EmptyBlockCompressed ==
    EmptyBlockProcessed => call.output.is_compressed = 1

\* C21 as amended: with compression_level NONE and compress_empty_block = 1,
\* process_chunk compresses every empty block, and reports it as compressed
\* if and only if ewf_format is S01 or the compressed size is smaller than
\* the chunk size of the media.
C21_EmptyBlockCompression ==
    EmptyBlockProcessed
        => /\ call.output.compressions > 0
           /\ call.output.is_compressed = 1
               <=> \/ io_handle.ewf_format = "S01"
                   \/ call.input.deflated < media_values.chunk_size

\* An empty block of two bytes of a format other than S01 is stored
\* compressed
C21_Witness ==
    /\ EmptyBlockProcessed
    /\ io_handle.ewf_format # "S01"
    /\ Len(call.input.chunk_data.bytes) = 2
    /\ call.output.is_compressed = 1
    /\ call.output.result = call.input.deflated

\* C22: the primary segment files are numbered 1, 2, 3, ... in the order of
\* their creation; a call that writes anything when there is no segment file
\* creates segment file 1 first; a segment file is created only when there
\* is none or the last one is no longer open for writing, so every segment
\* file but the last is closed and at most one is open for writing.
C22_SegmentFilesInOrder ==
    LET st == segment_table
    IN  /\ \A i \in 1..Len(st): st[i].segment_number = i
        /\ \A i \in 1..(Len(st) - 1): st[i].write_open = 0
        /\ Cardinality({i \in 1..Len(st): st[i].write_open = 1}) <= 1
        /\ (call.op = "write_new_chunk" /\ call.ops # <<>>) => Len(st) >= 1
        /\ (call.op = "write_new_chunk" /\ Issued(call, "create_segment_file"))
               => /\ call.ops[1] = "create_segment_file"
                  /\ Cardinality({i \in 1..Len(call.ops):
                         call.ops[i] = "create_segment_file"}) = 1

\* C22 witness: the call created segment file 2 after segment file 1 was
\* closed, and segment file 2 is the one open for writing
C22_Witness ==
    /\ call.op = "write_new_chunk"
    /\ Issued(call, "create_segment_file")
    /\ Len(segment_table) = 2
    /\ segment_table[2].segment_number = 2
    /\ segment_table[1].write_open = 0
    /\ segment_table[2].write_open = 1

\* The state of the writer before a call: a segment file is open for writing
\* (segment), its start is written (started), a chunks section is open
\* (section) with an amount of chunks (chunks); corrected: the operation
\* before was the correction of a chunks section, in this call
WriterStateOf(h, st) ==
    LET open == Len(st) > 0 /\ st[Len(st)].write_open = 1
    IN  [segment |-> open,
         started |-> open /\ st[Len(st)].section_list # <<>>,
         section |-> open /\ st[Len(st)].chunks_section_open = 1,
         chunks |-> h.section_amount_of_chunks,
         corrected |-> FALSE]

\* The writer operation op is in order in the state w
WriterOpInOrder(op, w) ==
    CASE op = "create_segment_file" -> ~w.segment
      [] op = "write_start" -> w.segment /\ ~w.started
      [] op = "write_chunks_section_start" ->
             w.segment /\ w.started /\ ~w.section
      [] op = "write_chunks_data" -> w.segment /\ w.started /\ w.section
      [] op = "write_chunks_correction" ->
             w.segment /\ w.section /\ w.chunks >= 1
      [] op = "write_close" -> w.segment /\ ~w.section /\ w.corrected
      [] OTHER -> FALSE

\* The state of the writer after the operation op
WriterStateAfter(op, w) ==
    CASE op = "create_segment_file" ->
             [w EXCEPT !.segment = TRUE, !.corrected = FALSE]
      [] op = "write_start" -> [w EXCEPT !.started = TRUE, !.corrected = FALSE]
      [] op = "write_chunks_section_start" ->
             [w EXCEPT !.section = TRUE, !.chunks = 0, !.corrected = FALSE]
      [] op = "write_chunks_data" ->
             [w EXCEPT !.chunks = w.chunks + 1, !.corrected = FALSE]
      [] op = "write_chunks_correction" ->
             [w EXCEPT !.section = FALSE, !.corrected = TRUE]
      [] op = "write_close" ->
             [w EXCEPT !.segment = FALSE, !.started = FALSE,
                       !.corrected = FALSE]
      [] OTHER -> w

RECURSIVE WriterOpsInOrder(_, _)
WriterOpsInOrder(ops, w) ==
    \/ ops = <<>>
    \/ /\ WriterOpInOrder(Head(ops), w)
       /\ WriterOpsInOrder(Tail(ops), WriterStateAfter(Head(ops), w))

\* C23: in runs without failures the writer operations of every call of
\* write_new_chunk follow the order segment start, chunks section start,
\* chunk data, chunks correction, and then the next chunks section start or
\* the segment close: chunk data is written only while a chunks section is
\* open in a segment file that is open for writing, a correction is issued
\* only for an open section that holds a chunk, and write_close is issued
\* only right after a correction of the same call and never while a chunks
\* section is open.
C23_WriterOrder ==
    [][NewChunkStep
        => WriterOpsInOrder(call'.ops,
                            WriterStateOf(write_io_handle, segment_table))]_vars

\* C23 witness: one call started a chunks section in a segment file that was
\* open, wrote the chunk, corrected the section and closed the segment file
C23_Witness ==
    /\ call.op = "write_new_chunk"
    /\ call.ops = <<"write_chunks_section_start", "write_chunks_data",
                    "write_chunks_correction", "write_close">>
    /\ segment_table[Len(segment_table)].write_open = 0

\* The call wrote the chunk with which the media of known size is complete:
\* by the amount of chunks (by_amount) or by the bytes of input (by_size)
FinalChunkWritten(by_amount, by_size) ==
    /\ call.op = "write_new_chunk"
    /\ call.failed = "none"
    /\ DataWritten(call)
    /\ media_values.media_size # 0
    /\ by_amount
        <=> write_io_handle.amount_of_chunks = media_values.amount_of_chunks
    /\ by_size
        <=> write_io_handle.input_write_count >= media_values.media_size

\* The call closed the chunks section and left the segment file open
SectionClosedSegmentOpen ==
    /\ Issued(call, "write_chunks_correction")
    /\ write_io_handle.chunks_section_offset = 0
    /\ write_io_handle.create_chunks_section = 1
    /\ ~Issued(call, "write_close")
    /\ segment_table[Len(segment_table)].write_open = 1

\* C24: for a media of known size the call that writes the final
\* chunk (amount_of_chunks reaches the amount of chunks of the media, or
\* input_write_count reaches media_size) closes the open chunks section in
\* that call and does not close the segment file, which stays open for
\* writing.
C24_FinalChunkClosesSection ==
    \A by_amount, by_size \in BOOLEAN:
        (FinalChunkWritten(by_amount, by_size) /\ (by_amount \/ by_size))
            => SectionClosedSegmentOpen

\* The space the claim has reserved for the framing of a chunks section
FramingReservation(io) ==
    IF io.ewf_format = "S01" THEN SizeofSection
    ELSE IF io.format = "ENCASE1" THEN SizeofSection + 4
    ELSE (3 * SizeofSection) + 8

\* remaining_segment_file_size after a call that wrote the chunk c.chunk
\* with the writer operations c.ops, by the accounting of the claim: h is
\* the handle before the call, section_chunks the amount of chunks for which
\* the chunks section was started, ot and st the tables after the call
BudgetAfter(c, h, section_chunks, ot, st, io) ==
    LET opened == IF Issued(c, "create_segment_file")
                  THEN (h.segment_file_size - SizeofSection)
                       - WriteStartCount(Len(st))
                  ELSE h.remaining_segment_file_size
        started == IF Issued(c, "write_chunks_section_start")
                   THEN (opened - FramingReservation(io))
                        - ChunksSectionStartCount(section_chunks, io.format,
                                                  io.ewf_format)
                   ELSE opened
    IN  (started - ot[c.chunk + 1].size) - (2 * SizeofTableOffset)

\* C25: the budget of a call of write_new_chunk without failure: when a
\* segment file is opened remaining_segment_file_size is set to
\* segment_file_size - sizeof(section) less the bytes of the segment start;
\* when a chunks section is opened it is reduced by the framing reservation
\* of the format and the bytes of the section start; for the chunk it is
\* reduced by the bytes written for the chunk and 2 * sizeof(table_offset),
\* for every format; the bytes of the correction and of the segment close
\* are not subtracted.
C25_BudgetAccounting ==
    [][(NewChunkStep /\ call'.failed = "none" /\ DataWritten(call'))
        => write_io_handle'.remaining_segment_file_size
               = BudgetAfter(call', write_io_handle,
                             write_io_handle'.chunks_per_chunks_section,
                             offset_table', segment_table', io_handle)]_vars

\* C25 witness: one call opened the second segment file and its first chunks
\* section and wrote a chunk, and the budget is what is left of the segment
\* file size
C25_Witness ==
    /\ call.op = "write_new_chunk"
    /\ call.failed = "none"
    /\ call.ops = <<"create_segment_file", "write_start",
                    "write_chunks_section_start", "write_chunks_data">>
    /\ Len(segment_table) = 2
    /\ write_io_handle.remaining_segment_file_size
           = ((((write_io_handle.segment_file_size - SizeofSection)
                - WriteStartCount(2)) - FramingReservation(io_handle))
              - ChunksSectionStartCount(
                    write_io_handle.chunks_per_chunks_section,
                    io_handle.format, io_handle.ewf_format))
             - (offset_table[call.chunk + 1].size + (2 * SizeofTableOffset))

\* The value of the reference algorithm for the arguments input of
\* calculate_chunks_per_segment, in the integers; a quotient is truncated
\* toward zero.  No value of the bounded arguments comes near 2^32 - 1.
ReferenceChunksPerSegment(input, media, io) ==
    LET o == IF io.ewf_format = "S01" THEN 16 ELSE 4
        remaining == input.remaining_segment_file_size
        max == CDiv(remaining, media.chunk_size + o)
        sections == IF input.unrestrict_offset_amount # 0 THEN 1
                    ELSE CMod(max, input.maximum_section_amount_of_chunks)
        offsets == IF TableInFront(io.format, io.ewf_format)
                   THEN SizeofTableOffset ELSE 2 * SizeofTableOffset
        budget == (remaining - (FramingReservation(io) * sections))
                  - (offsets * max)
        estimate == CDiv(budget, media.chunk_size + o)
        clamped == IF media.media_size > 0
                   THEN Min(estimate,
                            media.amount_of_chunks - input.amount_of_chunks)
                   ELSE estimate
    IN  clamped + input.segment_amount_of_chunks

\* C26: calculate_chunks_per_segment passes back the value of the reference
\* algorithm: remaining / (chunk_size + o), the sections, the budget less
\* the section and table offset overhead, budget / (chunk_size + o), the
\* clamp to the media chunks that remain and the segment chunks added.  The
\* value passed back is a uint32_t, so it is the value of the reference
\* algorithm only if that value is not negative.
C26_ChunksPerSegmentReference ==
    call.op = "calculate_chunks_per_segment"
        => /\ ReferenceChunksPerSegment(call.input, media_values, io_handle) >= 0
           /\ call.output.value
                  = ReferenceChunksPerSegment(call.input, media_values,
                                              io_handle)

\* The product of an int k (0 <= k < 256) and a uint32_t in limbs, in the
\* integers: the high limb is not reduced
ExactMul(k, limbs) ==
    LET low == k * limbs[2]
    IN  <<(k * limbs[1]) + (low \div 65536), low % 65536>>

\* What the claim has calculate_chunks_per_chunks_section return for the
\* arguments input: [result, value], with the difference taken in the
\* integers
ReferenceChunksPerChunksSection(input) ==
    LET maximum == U32Limbs(input.maximum_section_amount_of_chunks)
        difference == Int64Sub(U32Limbs(input.planned),
                               ExactMul(input.chunks_section_number - 1,
                                        maximum))
        restricted == IF input.unrestrict_offset_amount = 0
                         /\ LimbsGreater(difference, maximum)
                      THEN maximum ELSE difference
    IN  IF \/ input.chunks_section_number = 0
           \/ input.maximum_section_amount_of_chunks = 0
           \/ difference[1] < 0
           \/ difference = <<0, 0>>
        THEN [result |-> -1, value |-> 0]
        ELSE IF restricted[1] > 32767
        THEN [result |-> 1, value |-> INT32_MAX]
        ELSE [result |-> 1, value |-> (restricted[1] * 65536) + restricted[2]]

\* C27: calculate_chunks_per_chunks_section computes chunks_per_segment -
\* (section_number - 1) * max_section_chunks, fails when that value is <= 0,
\* when section_number = 0 or when max_section_chunks = 0, clamps the value
\* to max_section_chunks when restricted and to 2^31 - 1 always; so a result
\* r passed back has 1 <= r <= chunks_per_segment.
C27_ChunksPerChunksSectionValue ==
    call.op = "calculate_chunks_per_chunks_section"
        => /\ call.output = ReferenceChunksPerChunksSection(call.input)
           /\ call.output.result = 1
                  => /\ call.output.value >= 1
                     /\ U32Ge(call.input.planned, call.output.value)

\* C28: test_segment_file_full returns 1 when the remaining segment file
\* size cannot hold one more chunk (remaining < chunk_size + sizeof(CRC)),
\* for every format; when all chunks of the media have been written; when
\* input_write_count >= media_size for a media size that is not 0; and for
\* S01 and EnCase1 when segment_chunks >= chunks_per_segment; otherwise it
\* returns 0.
C28_SegmentFileFullTests ==
    call.op = "test_segment_file_full"
        => call.output.result
               = IF \/ call.input.remaining_segment_file_size
                          < media_values.chunk_size + SizeofCrc
                    \/ /\ media_values.amount_of_chunks # 0
                       /\ media_values.amount_of_chunks
                              = call.input.amount_of_chunks
                    \/ /\ media_values.media_size # 0
                       /\ call.input.input_write_count
                              >= media_values.media_size
                    \/ /\ TableInFront(io_handle.format, io_handle.ewf_format)
                       /\ U32Ge(call.input.segment_amount_of_chunks,
                                call.input.planned)
                 THEN 1 ELSE 0

\* One of the conditions the claim lists for a chunks section that is full
ChunksSectionFullCondition(input, media, io) ==
    \/ /\ media.amount_of_chunks # 0
       /\ media.amount_of_chunks = input.amount_of_chunks
    \/ /\ media.media_size # 0
       /\ input.input_write_count >= media.media_size
    \/ /\ input.unrestrict_offset_amount = 0
       /\ U32Ge(input.section_amount_of_chunks,
                input.maximum_section_amount_of_chunks)
    \/ U32Ge(input.section_amount_of_chunks, (-INT32_MAX) - 1)
    \/ /\ input.segment_file_offset[1] > input.chunks_section_offset[1]
       /\ \/ input.segment_file_offset[1] - input.chunks_section_offset[1] > 1
          \/ input.segment_file_offset[2] >= input.chunks_section_offset[2]
    \/ /\ TableInFront(io.format, io.ewf_format)
       /\ U32Ge(input.section_amount_of_chunks, input.planned)
    \/ /\ ~TableInFront(io.format, io.ewf_format)
       /\ input.remaining_segment_file_size < media.chunk_size + SizeofCrc

\* C29: test_chunks_section_full returns 0 when chunks_section_offset = 0,
\* even if all chunks have been written; otherwise it returns 1 if and only
\* if all media chunks are written, or input_write_count >= media_size for a
\* media size that is not 0, or the section is restricted and section_chunks
\* >= max_section_chunks, or section_chunks >= 2^31, or segment_file_offset
\* - chunks_section_offset > 2^31 - 1, or for S01 and EnCase1 section_chunks
\* >= chunks_per_chunks_section, or for the other formats the remaining
\* segment file size < chunk_size + sizeof(CRC); else it returns 0.
C29_ChunksSectionFullTests ==
    call.op = "test_chunks_section_full"
        => call.output.result
               = IF call.input.chunks_section_offset = <<0, 0>> THEN 0
                 ELSE IF ChunksSectionFullCondition(call.input, media_values,
                                                    io_handle)
                 THEN 1 ELSE 0

\* C29 witness: no chunks section is open, all chunks of the media have been
\* written and the function returned 0
C29_Witness ==
    /\ call.op = "test_chunks_section_full"
    /\ call.input.chunks_section_offset = <<0, 0>>
    /\ media_values.amount_of_chunks # 0
    /\ media_values.amount_of_chunks = call.input.amount_of_chunks
    /\ call.output.result = 0

\* The first call of libewf_compress of the call of process_chunk
FirstCompression ==
    libewf_compress(call.input.compressed_chunk_data_size, call.input.deflated,
                    call.input.fail)

\* C30: process_chunk calls the compressor at most twice.  The second call
\* is made only when the first failed, the buffer for the compressed data
\* is that of the chunk cache and a required size > 0 was passed back, and
\* only after the chunk cache was resized.  If the resize fails, if the
\* second call fails, or if the first call fails with a buffer of the
\* caller, process_chunk returns -1.
C30_CompressorRetriedOnce ==
    call.op = "process_chunk"
        => /\ call.output.compressions \in 0..2
           /\ call.output.compressions = 2
                  => /\ FirstCompression.result = -1
                     /\ call.input.compressed_chunk_data
                            = "chunk_cache_compressed"
                     /\ FirstCompression.size > 0
                     /\ call.input.fail # "resize"
           /\ (/\ call.output.compressions >= 1
               /\ FirstCompression.result = -1
               /\ \/ call.input.compressed_chunk_data = "caller"
                  \/ call.input.fail = "resize")
                  => call.output.result = -1
           /\ (call.output.compressions = 2
               /\ call.input.fail = "compress_again")
                  => call.output.result = -1

\* C30 witness: the buffer of the chunk cache was too small, the chunk
\* cache was resized and the second call of the compressor succeeded
C30_Witness ==
    /\ call.op = "process_chunk"
    /\ call.output.compressions = 2
    /\ call.input.fail = "none"
    /\ call.output.result = call.input.deflated
    /\ call.output.is_compressed = 1

\* The positions of the terminator descriptors (next or done) in the section
\* list of a segment file
Terminators(sf) ==
    {j \in 1..Len(sf.section_list):
        sf.section_list[j].type \in {"next", "done"}}

\* C31: after any sequence of successful delta writes the section list of
\* every delta segment file holds exactly one terminator descriptor and it is
\* the last element: a done terminator for the last delta segment file and a
\* next terminator for every earlier one.
C31_OneTerminatorLast ==
    \A i \in 1..Len(delta_segment_table):
        LET sf == delta_segment_table[i]
        IN  /\ Terminators(sf) = {Len(sf.section_list)}
            /\ sf.section_list[Len(sf.section_list)].type
                   = IF i = Len(delta_segment_table) THEN "done" ELSE "next"

\* C32: with no failure of I/O or allocation, write_new_chunk does not
\* return -1 for a chunk that is not yet written while the media size has
\* not been reached: the chunks section of a segment file that was not
\* found full can always be opened.
C32_OpenSegmentFileTakesChunk ==
    (/\ call.op = "write_new_chunk"
     /\ failures = 0
     /\ ~call.already_set
     /\ ~call.reached)
        => call.result # -1

\* C33: chunk data is written into a segment file only after the start of
\* the chunks section that is being filled has been written: by the call
\* itself, or by an earlier call that left the section open.  This holds
\* also after a call that failed while it opened the section.
C33_DataAfterSectionStart ==
    [][(NewChunkStep /\ DataWritten(call'))
        => \/ Issued(call', "write_chunks_section_start")
           \/ ChunksSectionOpen(segment_table)]_vars

\* C34: the estimate of calculate_chunks_per_segment never exceeds
\* segment_chunks_so_far + remaining / (chunk_size + per chunk overhead),
\* also when the remaining size is smaller than the reserved overhead or
\* when more chunks were written than the media has: no value goes negative
\* and wraps to a large uint32_t.
C34_EstimateWithinRemaining ==
    call.op = "calculate_chunks_per_segment"
        => /\ call.output.value >= 0
           /\ call.output.value
                  <= call.input.segment_amount_of_chunks
                     + (call.input.remaining_segment_file_size
                        \div PlannerChunkSize(media_values,
                                              io_handle.ewf_format))

\* C35: with compression_level NONE, a format other than S01 and no
\* promotion of an empty block, a call of process_chunk that succeeds makes
\* no compression and reports is_compressed = 0 with the CRC calculated over
\* the chunk data, whatever *compressed_chunk_data_size holds on entry.
C35_NoCompressionStoresRaw ==
    (/\ call.op = "process_chunk"
     /\ call.result # -1
     /\ call.input.compression_level = "NONE"
     /\ io_handle.ewf_format # "S01"
     /\ \/ call.input.compress_empty_block = 0
        \/ test_empty_block(call.input.chunk_data.bytes,
                            Len(call.input.chunk_data.bytes)) = 0)
        => /\ call.output.compressions = 0
           /\ call.output.is_compressed = 0
           /\ call.output.chunk_crc = "calculated"

\* The state of the write of the primary segment files
PrimaryState(h) ==
    <<h.amount_of_chunks, h.segment_amount_of_chunks,
      h.section_amount_of_chunks, h.input_write_count, h.write_count,
      h.remaining_segment_file_size, h.chunks_per_segment,
      h.chunks_per_chunks_section, h.chunks_section_offset,
      h.chunks_section_number, h.create_chunks_section, h.write_finalized>>

\* C36: a delta write, whether it succeeds or fails and whichever path it
\* takes, leaves amount_of_chunks, segment_amount_of_chunks,
\* section_amount_of_chunks, input_write_count, write_count,
\* remaining_segment_file_size, chunks_per_segment,
\* chunks_per_chunks_section, chunks_section_offset, chunks_section_number,
\* create_chunks_section and write_finalized as they were, and the primary
\* segment files too; after the finalize a delta write of a chunk that is
\* written is accepted as before it.
C36_DeltaWriteFrame ==
    [][ExistingChunkStep
        => /\ PrimaryState(write_io_handle') = PrimaryState(write_io_handle)
           /\ segment_table' = segment_table
           /\ (/\ call'.finalized
               /\ failures' = 0
               /\ call'.already_set
               /\ call'.is_compressed = 0)
                  => call'.result > 0]_vars

\* C36 witness: a delta write after the finalize was accepted, in a handle
\* whose counters of the primary write are not 0
C36_Witness ==
    /\ call.op = "write_existing_chunk"
    /\ call.finalized
    /\ call.result > 0
    /\ write_io_handle.write_finalized = 1
    /\ write_io_handle.amount_of_chunks > 0
    /\ write_io_handle.write_count > 0

\* A delta write that succeeded for a chunk that was in a delta segment file
\* (the in-place path)
DeltaInPlaceStep ==
    /\ ExistingChunkStep
    /\ call'.result > 0
    /\ call'.already_set
    /\ offset_table[call'.chunk + 1].segment_file_handle[1] = "DWF"

\* The size of the delta_chunk section that holds chunk, by the section list
\* of its delta segment file
StoredSectionSize(ot, st, chunk) ==
    LET entry == ot[chunk + 1]
        list == st[entry.segment_file_handle[2]].section_list
        start == (entry.file_offset - SizeofDeltaChunkHeader) - SizeofSection
        i == CHOOSE i \in 1..Len(list): list[i].start_offset = start
    IN  list[i].size

\* C37: an in-place delta write writes no byte beyond the end of the
\* delta_chunk section it replaces, for every chunk size passed: the bytes
\* written (the value returned) are at most the size of the stored section,
\* so the section that follows is left as it was.
C37_InPlaceWithinSection ==
    [][DeltaInPlaceStep
        => call'.result <= StoredSectionSize(offset_table, delta_segment_table,
                                             call'.chunk)]_vars

\* C38: for S01 and EnCase1, whose table of offsets is sized when the chunks
\* section is started, the chunks written into a chunks section are never
\* more than the chunks_per_chunks_section that was passed to
\* write_chunks_section_start for it: while the section is open and when it
\* is closed.
C38_SectionWithinTable ==
    (/\ TableInFront(io_handle.format, io_handle.ewf_format)
     /\ \/ ChunksSectionOpen(segment_table)
        \/ Issued(call, "write_chunks_correction"))
        => write_io_handle.section_amount_of_chunks
               <= write_io_handle.chunks_per_chunks_section

\* C39: in a run without failures the chunk that write_new_chunk writes
\* begins at most 2^31 - 1 bytes after the start of its chunks section
\* (chunks_section_offset), for every segment file size and with
\* unrestrict_offset_amount set or not.
C39_ChunkWithinInt32OfSection ==
    (call.op = "write_first_chunk_offsets" /\ call.output.result = 1)
        => ~Off64Exceeds(call.output.chunk_offset,
                         call.output.chunks_section_offset)

\* C40: libewf_write_io_handle_initialize returns 1 or -1.  When the
\* allocation of the handle fails it returns -1, *write_io_handle stays NULL
\* and the memory that was not allocated is not touched; when
\* *write_io_handle is not NULL it returns 1 and the handle is as it was.
C40_InitializeReturns ==
    call.op = "initialize" =>
        /\ call.output.returned /\ call.result \in {1, -1}
        /\ call.failed = "memory_allocate" =>
              /\ call.result = -1
              /\ write_io_handle = NullHandle
              /\ ~call.output.null_set
        /\ (call.input.argument = 1 /\ call.input.handle # NullHandle) =>
              /\ call.result = 1
              /\ write_io_handle = call.input.handle

====
